---- MODULE Spec2Model ----
(***************************************************************************)
(* Record/replay substrate of speck: the cassette recorder, the            *)
(* per-(port, method) replayer, the recording and replaying adapters of    *)
(* the seven ports and the service context that wires them.                *)
(***************************************************************************)
EXTENDS Integers, Sequences, FiniteSets, TLC

(***************************************************************************)
(* Bounds of the model.                                                    *)
(***************************************************************************)
\* longest hand-written cassette with several interactions
MaxLen == 3
\* most port calls one replaying context makes
MaxCalls == 3
\* most port calls made through recording adapters before finish
MaxRecord == 2

\* Option<T>
None == [none |-> TRUE]
Some(x) == [some |-> x]
unwrap_or(opt, d) == IF opt = None THEN d ELSE opt.some

(***************************************************************************)
(* serde_json::Value.  Every kind of value is a record with its own field  *)
(* names; obj.o is a function from member names to values.                 *)
(***************************************************************************)
JNull == [t |-> "null"]
JStr(s) == [t |-> "str", s |-> s]
JBool(b) == [t |-> "bool", b |-> b]
JNum(n) == [t |-> "num", n |-> n]
JArr(a) == [t |-> "arr", a |-> a]
JObj(o) == [t |-> "obj", o |-> o]

\* Value::get(&str): the member of an object, None for a missing member and
\* for every value that is not an object
get(v, k) == IF v.t = "obj" /\ k \in DOMAIN v.o THEN v.o[k] ELSE None

\* Option<&Value>::or_else
or_else(a, b) == IF a # None THEN a ELSE b

\* Value::as_str
as_str(v) == IF v.t = "str" THEN Some(v.s) ELSE None

\* Value::as_bool
as_bool(v) == IF v.t = "bool" THEN Some(v.b) ELSE None

\* Value::as_i64
as_i64(v) == IF v.t = "num" THEN Some(v.n) ELSE None

(***************************************************************************)
(* The values the ports return, by Rust type.                              *)
(***************************************************************************)
VString(s) == [ty |-> "String", str |-> s]
VUnit == [ty |-> "unit"]
VBool(b) == [ty |-> "bool", bool |-> b]
VVec(items) == [ty |-> "Vec", items |-> items]
VTime(i) == [ty |-> "DateTime", instant |-> i]
ShellOutput(c, out, err) == [ty |-> "ShellOutput", exit_code |-> c, stdout |-> out, stderr |-> err]
CompletionResponse(text, p, c) ==
    [ty |-> "CompletionResponse", text |-> text, prompt_tokens |-> p, completion_tokens |-> c]
Issue(id, title, body, st) == [ty |-> "Issue", id |-> id, title |-> title, body |-> body, status |-> st]

\* Result<T, Box<dyn Error>>, and a panic of the calling thread
ROk(v) == [kind |-> "Ok", val |-> v]
RErr(m) == [kind |-> "Err", msg |-> m]
Panic(m) == [kind |-> "panic", panic |-> m]

(***************************************************************************)
(* chrono's serde form of DateTime<Utc>: an RFC 3339 string.  Instants are *)
(* numbered; the serializer writes the Z form, the parser also reads the   *)
(* +00:00 form of the same instant.                                        *)
(***************************************************************************)
Instants == {1, 2}
Rfc3339Z == <<"2025-03-15T14:30:00Z", "2025-06-01T09:00:00Z">>
Rfc3339Offset == <<"2025-03-15T14:30:00+00:00", "2025-06-01T09:00:00+00:00">>

ParseInstant(s) ==
    IF \E i \in Instants : Rfc3339Z[i] = s \/ Rfc3339Offset[i] = s
    THEN Some(CHOOSE i \in Instants : Rfc3339Z[i] = s \/ Rfc3339Offset[i] = s)
    ELSE None

(***************************************************************************)
(* serde_json::to_value of a port value.                                   *)
(***************************************************************************)
RECURSIVE Ser(_)
Ser(v) ==
    CASE v.ty = "String" -> JStr(v.str)
      [] v.ty = "unit" -> JNull
      [] v.ty = "bool" -> JBool(v.bool)
      [] v.ty = "Vec" -> JArr([i \in DOMAIN v.items |-> Ser(v.items[i])])
      [] v.ty = "DateTime" -> JStr(Rfc3339Z[v.instant])
      [] v.ty = "ShellOutput" ->
            JObj([exit_code |-> JNum(v.exit_code), stdout |-> JStr(v.stdout),
                  stderr |-> JStr(v.stderr)])
      [] v.ty = "CompletionResponse" ->
            JObj([text |-> JStr(v.text), prompt_tokens |-> JNum(v.prompt_tokens),
                  completion_tokens |-> JNum(v.completion_tokens)])
      [] v.ty = "Issue" ->
            JObj([id |-> JStr(v.id), title |-> JStr(v.title), body |-> JStr(v.body),
                  status |-> JStr(v.status)])

(***************************************************************************)
(* serde_json::from_value::<T>: the decoded value, or None when the JSON   *)
(* value does not have the shape of T.  Derived structs read a map (extra  *)
(* members ignored) or an array of exactly their fields.                   *)
(***************************************************************************)
IsStr(j) == j # None /\ j.t = "str"
\* a u32 member: the numbers of the model stay far below 2^32, so only the
\* sign decides
IsU32(j) == j # None /\ j.t = "num" /\ j.n >= 0

DeIssue(j) ==
    IF j.t = "obj"
    THEN IF /\ IsStr(get(j, "id")) /\ IsStr(get(j, "title"))
            /\ IsStr(get(j, "body")) /\ IsStr(get(j, "status"))
         THEN Issue(j.o["id"].s, j.o["title"].s, j.o["body"].s, j.o["status"].s)
         ELSE None
    ELSE IF j.t = "arr" /\ Len(j.a) = 4 /\ \A i \in 1..4 : IsStr(j.a[i])
         THEN Issue(j.a[1].s, j.a[2].s, j.a[3].s, j.a[4].s)
         ELSE None

DeCompletion(j) ==
    IF j.t = "obj"
    THEN IF /\ IsStr(get(j, "text")) /\ IsU32(get(j, "prompt_tokens"))
            /\ IsU32(get(j, "completion_tokens"))
         THEN CompletionResponse(j.o["text"].s, j.o["prompt_tokens"].n,
                                 j.o["completion_tokens"].n)
         ELSE None
    ELSE IF j.t = "arr" /\ Len(j.a) = 3 /\ IsStr(j.a[1]) /\ IsU32(j.a[2]) /\ IsU32(j.a[3])
         THEN CompletionResponse(j.a[1].s, j.a[2].n, j.a[3].n)
         ELSE None

De(ty, j) ==
    CASE ty = "String" -> IF j.t = "str" THEN VString(j.s) ELSE None
      [] ty = "unit" -> IF j.t = "null" THEN VUnit ELSE None
      [] ty = "bool" -> IF j.t = "bool" THEN VBool(j.b) ELSE None
      [] ty = "VecString" ->
            IF j.t = "arr" /\ \A i \in DOMAIN j.a : j.a[i].t = "str"
            THEN VVec([i \in DOMAIN j.a |-> VString(j.a[i].s)]) ELSE None
      [] ty = "DateTime" ->
            IF j.t = "str" /\ ParseInstant(j.s) # None
            THEN VTime(ParseInstant(j.s).some) ELSE None
      [] ty = "CompletionResponse" -> DeCompletion(j)
      [] ty = "Issue" -> DeIssue(j)
      [] ty = "VecIssue" ->
            IF j.t = "arr" /\ \A i \in DOMAIN j.a : DeIssue(j.a[i]) # None
            THEN VVec([i \in DOMAIN j.a |-> DeIssue(j.a[i])]) ELSE None

(***************************************************************************)
(* The seven ports and their operations.                                   *)
(***************************************************************************)
Ports == {"clock", "fs", "git", "shell", "id_gen", "llm", "issues"}

Op(p, m) == [port |-> p, method |-> m]

Ops ==
    {Op("clock", "now"),
     Op("fs", "read_to_string"), Op("fs", "write"), Op("fs", "exists"), Op("fs", "list_dir"),
     Op("git", "current_commit"), Op("git", "diff"), Op("git", "list_files"),
     Op("shell", "run"),
     Op("id_gen", "generate_id"),
     Op("llm", "complete"),
     Op("issues", "create_issue"), Op("issues", "update_issue"), Op("issues", "list_issues")}

\* the operations that return a plain value instead of a Result
Infallible == {Op("clock", "now"), Op("fs", "exists"), Op("id_gen", "generate_id")}

\* the Rust type of an operation's success value
ResultType(op) ==
    CASE op = Op("clock", "now") -> "DateTime"
      [] op = Op("fs", "exists") -> "bool"
      [] op = Op("fs", "write") -> "unit"
      [] op \in {Op("fs", "list_dir"), Op("git", "list_files")} -> "VecString"
      [] op = Op("shell", "run") -> "ShellOutput"
      [] op = Op("llm", "complete") -> "CompletionResponse"
      [] op \in {Op("issues", "create_issue"), Op("issues", "update_issue")} -> "Issue"
      [] op = Op("issues", "list_issues") -> "VecIssue"
      [] OTHER -> "String"

\* the value an infallible operation returns
RVal(v) == [kind |-> "value", val |-> v]

(***************************************************************************)
(* Cassette data model.                                                    *)
(***************************************************************************)
Interaction(seq, port, method, input, output) ==
    [seq |-> seq, port |-> port, method |-> method, input |-> input, output |-> output]

Cassette(name, recorded_at, commit, interactions) ==
    [name |-> name, recorded_at |-> recorded_at, commit |-> commit,
     interactions |-> interactions]

(***************************************************************************)
(* CassetteRecorder.                                                       *)
(***************************************************************************)
RecorderNew(path, name, commit) ==
    [path |-> path, name |-> name, commit |-> commit, interactions |-> <<>>, next_seq |-> 0]

\* [mutant] next_seq is incremented before it is assigned
record_increment_first(rec, port, method, input, output) ==
    [rec EXCEPT !.interactions = Append(@, Interaction(rec.next_seq + 1, port, method, input, output)),
                !.next_seq = @ + 1]

record(rec, port, method, input, output) ==
    [rec EXCEPT !.interactions = Append(@, Interaction(rec.next_seq, port, method, input, output)),
                !.next_seq = @ + 1]

\* the cassette value finish builds; now is the wall clock at that moment
finish(rec, now) == Cassette(rec.name, now, rec.commit, rec.interactions)

(***************************************************************************)
(* CassetteReplayer: per-(port, method) queues and cursors.                *)
(***************************************************************************)
PortMethodKey(i) == [port |-> i.port, method |-> i.method]

KeyName(k) == k.port \o "::" \o k.method

\* [mutant] the buckets are filled by inserting at the front, so that every
\* queue holds its interactions in reverse
Reverse(q) == [i \in 1..Len(q) |-> q[Len(q) + 1 - i]]

ReplayerNewPrepending(cassette) ==
    LET ints == cassette.interactions
        keys == {PortMethodKey(ints[i]) : i \in DOMAIN ints}
    IN [queues |-> [k \in keys |-> Reverse(SelectSeq(ints, LAMBDA x : PortMethodKey(x) = k))],
        cursors |-> [k \in keys |-> 0]]

ReplayerNew(cassette) ==
    LET ints == cassette.interactions
        keys == {PortMethodKey(ints[i]) : i \in DOMAIN ints}
    IN [queues |-> [k \in keys |-> SelectSeq(ints, LAMBDA x : PortMethodKey(x) = k)],
        cursors |-> [k \in keys |-> 0]]

\* the orders in which a HashMap may iterate over its keys
IterOrders(rep) ==
    LET keys == DOMAIN rep.queues
        n == Cardinality(keys)
    IN {f \in [1..n -> keys] : \A i, j \in 1..n : i # j => f[i] # f[j]}

\* [mutant] the message lists the ports of the cassette, not its
\* port::method pairs
UnknownKeyPanicPortsOnly(port, method, iter) ==
    Panic([text |-> "Cassette exhausted: no interactions recorded",
           port |-> port, method |-> method,
           available |-> [i \in DOMAIN iter |-> iter[i].port]])

UnknownKeyPanic(port, method, iter) ==
    Panic([text |-> "Cassette exhausted: no interactions recorded",
           port |-> port, method |-> method,
           available |-> [i \in DOMAIN iter |-> KeyName(iter[i])]])

ExhaustedPanic(port, method, queue) ==
    Panic([text |-> "Cassette exhausted: all interactions have been consumed",
           port |-> port, method |-> method, count |-> Len(queue),
           last_seq |-> IF queue = <<>> THEN 0 ELSE queue[Len(queue)].seq])

\* [mutant] the cursor wraps around at the end of the queue
next_interaction_wrapping(rep, port, method, iter) ==
    LET key == [port |-> port, method |-> method] IN
    IF key \notin DOMAIN rep.queues
    THEN [rep |-> rep, out |-> UnknownKeyPanic(port, method, iter)]
    ELSE LET queue == rep.queues[key]
             cursor == rep.cursors[key] % Len(queue)
         IN [rep |-> [rep EXCEPT !.cursors[key] = cursor + 1],
             out |-> [kind |-> "interaction", it |-> queue[cursor + 1]]]

\* [mutant] one cursor over the whole cassette: a call is served only when
\* the next interaction in recording order is on its stream
next_interaction_global_cursor(rep, port, method, iter) ==
    LET key == [port |-> port, method |-> method]
        keys == DOMAIN rep.queues
        consumed == Cardinality(UNION {{<<k, n>> : n \in 1..rep.cursors[k]} : k \in keys})
    IN IF key \notin keys
       THEN [rep |-> rep, out |-> UnknownKeyPanic(port, method, iter)]
       ELSE LET queue == rep.queues[key]
                cursor == rep.cursors[key]
            IN IF cursor < Len(queue) /\ queue[cursor + 1].seq = consumed
               THEN [rep |-> [rep EXCEPT !.cursors[key] = cursor + 1],
                     out |-> [kind |-> "interaction", it |-> queue[cursor + 1]]]
               ELSE [rep |-> rep, out |-> ExhaustedPanic(port, method, queue)]

\* [mutant] the queue is looked up by port alone: the first key of that port
\* in the map's iteration order is served
next_interaction_by_port(rep, port, method, iter) ==
    IF \A i \in DOMAIN iter : iter[i].port # port
    THEN [rep |-> rep, out |-> UnknownKeyPanic(port, method, iter)]
    ELSE LET first == CHOOSE i \in DOMAIN iter :
                         iter[i].port = port /\ \A j \in 1..(i - 1) : iter[j].port # port
             key == iter[first]
             queue == rep.queues[key]
             cursor == rep.cursors[key]
         IN IF ~(cursor < Len(queue))
            THEN [rep |-> rep, out |-> ExhaustedPanic(port, method, queue)]
            ELSE [rep |-> [rep EXCEPT !.cursors[key] = cursor + 1],
                  out |-> [kind |-> "interaction", it |-> queue[cursor + 1]]]

\* [mutant] a miss on an unknown key leaves an empty queue for the key behind
next_interaction_inserting(rep, port, method, iter) ==
    LET key == [port |-> port, method |-> method] IN
    IF key \notin DOMAIN rep.queues
    THEN [rep |-> [queues |-> [k \in DOMAIN rep.queues \cup {key} |->
                                 IF k = key THEN <<>> ELSE rep.queues[k]],
                   cursors |-> [k \in DOMAIN rep.queues \cup {key} |->
                                  IF k = key THEN 0 ELSE rep.cursors[k]]],
          out |-> UnknownKeyPanic(port, method, iter)]
    ELSE LET queue == rep.queues[key]
             cursor == rep.cursors[key]
         IN IF ~(cursor < Len(queue))
            THEN [rep |-> rep, out |-> ExhaustedPanic(port, method, queue)]
            ELSE [rep |-> [rep EXCEPT !.cursors[key] = cursor + 1],
                  out |-> [kind |-> "interaction", it |-> queue[cursor + 1]]]

\* [mutant] the interaction under the cursor is returned and the cursor
\* stays where it is
next_interaction_peek(rep, port, method, iter) ==
    LET key == [port |-> port, method |-> method] IN
    IF key \notin DOMAIN rep.queues
    THEN [rep |-> rep, out |-> UnknownKeyPanic(port, method, iter)]
    ELSE LET queue == rep.queues[key]
             cursor == rep.cursors[key]
         IN IF ~(cursor < Len(queue))
            THEN [rep |-> rep, out |-> ExhaustedPanic(port, method, queue)]
            ELSE [rep |-> rep, out |-> [kind |-> "interaction", it |-> queue[cursor + 1]]]

\* next_interaction: the replayer afterwards and the interaction returned,
\* or the panic; iter is the iteration order of queues.keys()
next_interaction(rep, port, method, iter) ==
    LET key == [port |-> port, method |-> method] IN
    IF key \notin DOMAIN rep.queues
    THEN [rep |-> rep, out |-> UnknownKeyPanic(port, method, iter)]
    ELSE LET queue == rep.queues[key]
             cursor == rep.cursors[key]
         IN IF ~(cursor < Len(queue))
            THEN [rep |-> rep, out |-> ExhaustedPanic(port, method, queue)]
            ELSE [rep |-> [rep EXCEPT !.cursors[key] = cursor + 1],
                  out |-> [kind |-> "interaction", it |-> queue[cursor + 1]]]

(***************************************************************************)
(* Recording adapters: the JSON forms of a call's input and result.        *)
(***************************************************************************)
\* the input struct each recording adapter serializes; arg is the call's
\* path, command, prompt, title, id or status
InputJson(op, arg) ==
    CASE op \in {Op("clock", "now"), Op("id_gen", "generate_id"),
                 Op("git", "current_commit"), Op("git", "diff")} -> JNull
      [] op = Op("fs", "write") -> JObj([path |-> JStr(arg), contents |-> JStr(arg)])
      [] op = Op("shell", "run") -> JObj([command |-> JStr(arg)])
      [] op = Op("llm", "complete") ->
            JObj([model |-> JStr("model"), prompt |-> JStr(arg), max_tokens |-> JNum(1)])
      [] op = Op("issues", "create_issue") -> JObj([title |-> JStr(arg), body |-> JStr(arg)])
      [] op = Op("issues", "update_issue") ->
            JObj([id |-> JStr(arg), title |-> JNull, body |-> JNull, status |-> JNull])
      [] op = Op("issues", "list_issues") -> JObj([status |-> JStr(arg)])
      [] OTHER -> JObj([path |-> JStr(arg)])

\* record_interaction: a plain return value is stored bare
record_interaction(rec, port, method, input_json, output) ==
    record(rec, port, method, input_json, Ser(output.val))

\* [mutant] only a successful call is recorded
record_result_ok_only(rec, port, method, input_json, result) ==
    IF result.kind = "Ok"
    THEN record(rec, port, method, input_json, JObj([Ok |-> Ser(result.val)]))
    ELSE rec

\* record_result: Ok(v) is stored as {"Ok": v}, Err(e) as {"Err": e.to_string()}
record_result(rec, port, method, input_json, result) ==
    LET output_json == IF result.kind = "Ok"
                       THEN JObj([Ok |-> Ser(result.val)])
                       ELSE JObj([Err |-> JStr(result.msg)])
    IN record(rec, port, method, input_json, output_json)

\* [mutant] the adapter puts the operation's name in front of a failure
RecordingCallWrappingError(rec, op, arg, inner) ==
    [rec |-> IF op \in Infallible
             THEN record_interaction(rec, op.port, op.method, InputJson(op, arg), inner)
             ELSE record_result(rec, op.port, op.method, InputJson(op, arg), inner),
     res |-> IF inner.kind = "Err" THEN RErr(op.port \o "::" \o op.method \o ": " \o inner.msg)
             ELSE inner]

\* a call on a recording adapter: inner is what the wrapped adapter returned;
\* yields the recorder afterwards and the value handed to the caller
RecordingCall(rec, op, arg, inner) ==
    [rec |-> IF op \in Infallible
             THEN record_interaction(rec, op.port, op.method, InputJson(op, arg), inner)
             ELSE record_result(rec, op.port, op.method, InputJson(op, arg), inner),
     res |-> inner]

(***************************************************************************)
(* Replaying adapters: decoding a recorded output.                         *)
(***************************************************************************)
\* extract_result of the fs, git and issues adapters
extract_result(output, context, ty) ==
    LET err == get(output, "err") IN
    IF err # None
    THEN RErr(unwrap_or(as_str(err), "unknown error"))
    ELSE LET value == IF get(output, "ok") # None THEN get(output, "ok") ELSE output
             de == De(ty, value)
         IN IF de # None THEN ROk(de)
            ELSE RErr(context \o ": failed to deserialize")

ReplayingClock_now(output) ==
    LET de == De("DateTime", output) IN
    IF de # None THEN RVal(de)
    ELSE Panic([text |-> "clock::now: failed to deserialize DateTime<Utc>"])

ReplayingFileSystem_write(output) ==
    LET err == get(output, "err") IN
    IF err # None THEN RErr(unwrap_or(as_str(err), "unknown error"))
    ELSE ROk(VUnit)

ReplayingFileSystem_exists(output) ==
    IF as_bool(output) # None THEN RVal(VBool(as_bool(output).some))
    ELSE Panic([text |-> "fs::exists: expected boolean output"])

ReplayingIdGenerator_generate_id(output) ==
    IF as_str(output) # None THEN RVal(VString(as_str(output).some))
    ELSE Panic([text |-> "id_gen::generate_id: expected string output"])

\* Option<&Value>::and_then(Value::as_..)
and_then_str(opt) == IF opt = None THEN None ELSE as_str(opt)
and_then_i64(opt) == IF opt = None THEN None ELSE as_i64(opt)

\* i32::try_from(exit_code).unwrap_or(1): every number of the model fits an
\* i32, so the conversion succeeds
I32OrOne(n) == n

ReplayingShellExecutor_run(output) ==
    LET err == get(output, "err") IN
    IF err # None THEN RErr(unwrap_or(as_str(err), "unknown error"))
    ELSE LET value == IF get(output, "ok") # None THEN get(output, "ok") ELSE output
             exit_code == unwrap_or(and_then_i64(get(value, "exit_code")), 0)
             stdout == unwrap_or(and_then_str(get(value, "stdout")), "")
             stderr == unwrap_or(and_then_str(get(value, "stderr")), "")
         IN ROk(ShellOutput(I32OrOne(exit_code), stdout, stderr))

ReplayingLlmClient_complete(output) ==
    LET err == get(output, "err") IN
    IF err # None THEN RErr(unwrap_or(as_str(err), "unknown error"))
    ELSE LET value == IF get(output, "ok") # None THEN get(output, "ok") ELSE output
             de == De("CompletionResponse", value)
         IN IF de # None THEN ROk(de)
            ELSE RErr("llm::complete: failed to deserialize")

\* what the replaying adapter of op makes of a recorded output
Decode(op, output) ==
    CASE op = Op("clock", "now") -> ReplayingClock_now(output)
      [] op = Op("fs", "write") -> ReplayingFileSystem_write(output)
      [] op = Op("fs", "exists") -> ReplayingFileSystem_exists(output)
      [] op = Op("id_gen", "generate_id") -> ReplayingIdGenerator_generate_id(output)
      [] op = Op("shell", "run") -> ReplayingShellExecutor_run(output)
      [] op = Op("llm", "complete") -> ReplayingLlmClient_complete(output)
      [] OTHER -> extract_result(output, KeyName(op), ResultType(op))

\* [mutant] the adapter refuses an interaction whose recorded input is not
\* the input of the call
ReplayingCallMatchingInput(rep, op, arg, iter) ==
    LET nx == next_interaction(rep, op.port, op.method, iter) IN
    IF nx.out.kind = "panic"
    THEN [rep |-> nx.rep, got |-> None, res |-> nx.out]
    ELSE IF nx.out.it.input # InputJson(op, arg)
         THEN [rep |-> nx.rep, got |-> nx.out.it, res |-> RErr("input mismatch")]
         ELSE [rep |-> nx.rep, got |-> nx.out.it, res |-> Decode(op, nx.out.it.output)]

\* a call on a replaying adapter: the adapter's replayer afterwards, the
\* interaction it was served (None after a panic of the replayer) and the
\* result handed to the caller; the call's argument arg is not looked at
ReplayingCall(rep, op, arg, iter) ==
    LET nx == next_interaction(rep, op.port, op.method, iter) IN
    IF nx.out.kind = "panic"
    THEN [rep |-> nx.rep, got |-> None, res |-> nx.out]
    ELSE [rep |-> nx.rep, got |-> nx.out.it, res |-> Decode(op, nx.out.it.output)]

(***************************************************************************)
(* The values the model draws its inputs from.                             *)
(***************************************************************************)
Args == {"a", "b"}
\* the argument of the calls made while recording, and of the first replay
FirstArgs == {"a"}
Paths == {"p1", "p2"}
Contexts == {1, 2}

\* one value of every result type, and a second one where an operation is
\* used to tell calls apart
Sample(ty) ==
    CASE ty = "String" -> VString("x")
      [] ty = "unit" -> VUnit
      [] ty = "bool" -> VBool(TRUE)
      [] ty = "VecString" -> VVec(<<VString("x")>>)
      [] ty = "DateTime" -> VTime(1)
      [] ty = "ShellOutput" -> ShellOutput(1, "out", "errout")
      [] ty = "CompletionResponse" -> CompletionResponse("world", 5, 1)
      [] ty = "Issue" -> Issue("i1", "title", "body", "open")
      [] ty = "VecIssue" -> VVec(<<Issue("i1", "title", "body", "open")>>)

Sample2(ty) ==
    CASE ty = "String" -> VString("y")
      [] ty = "bool" -> VBool(FALSE)
      [] ty = "DateTime" -> VTime(2)

\* what a live or inner adapter may return for op
Results(op) ==
    IF op \in Infallible
    THEN {RVal(Sample(ResultType(op))), RVal(Sample2(ResultType(op)))}
    ELSE {ROk(Sample(ResultType(op))), RErr("boom")}

(***************************************************************************)
(* State.                                                                  *)
(***************************************************************************)
VARIABLES
    mode,       \* "adapters": calls go through recording adapters sharing the
                \* recorder; "context": through ServiceContext::recording;
                \* "replay": no recording, the cassettes are on disk already
    recorder,   \* the CassetteRecorder, None once finish has consumed it
    recLog,     \* the calls made while recording, with what each returned
    disk,       \* the cassette file at each path, None where there is none
    ctx,        \* per replaying context: None, or each port's replayer
    status,     \* per replaying context: "none", "running", "panicked", "done"
    log,        \* per replaying context: its calls, the interaction served, the result
    loaded,     \* history: the path each replaying context was built from
    pc,         \* where the caller of a recording session stands
    session,    \* the RecordingSession: each port's recorder; None once consumed
    refs,       \* per port: the Arc clones of its recorder held outside the session
    frame,      \* the call on a synchronous recording adapter that is under way
    llmFuture,  \* the future RecordingLlmClient::complete returned, while it lives
    dir,        \* the session directory: each port's cassette file
    outcome,    \* what the handler and RecordingSession::finish returned; history:
                \* the references finish saw and how the writes went
    innerCalls, \* history: the calls made on inner adapters
    replayFuture \* per replaying context: the future llm.complete returned

VARIABLES
    wall,         \* the wall clock, in whole seconds
    cassetteDirs, \* .speck/cassettes: per timestamp None, or the directory's files
    procs         \* per process constructing a RecordingSession: where it stands

collisionVars == <<wall, cassetteDirs, procs>>

VARIABLES
    liveCtx,      \* the context ServiceContext::live built: the adapter of each port
    liveLog       \* the calls made on the live context, with what each returned

liveVars == <<liveCtx, liveLog>>

VARIABLES
    taskSpec,     \* the task spec under validation: its verification strategy
    checkResults, \* the CheckResults produced so far, in the order of the checks
    shellLog,     \* history: the commands run through ctx.shell, with what each returned
    validation    \* the ValidationResult, None until validate_spec has returned

validateVars == <<taskSpec, checkResults, shellLog, validation>>

VARIABLES
    feedback      \* the FeedbackClassification, None until classify_failures has returned

feedbackVars == <<feedback>>

VARIABLES
    driftSpecs,   \* the task specs given to detect_drift
    oldMap,       \* the codebase map the specs were planned against
    newMap,       \* the codebase map of the current commit
    driftReport   \* the DriftReport, None until detect_drift has returned

driftVars == <<driftSpecs, oldMap, newMap, driftReport>>

VARIABLES
    reconcileSpecs, \* the task specs given to reconcile
    visitOrder,     \* the order in which the HashSet of spec ids is iterated
    circular        \* the cycles detect_circular_dependencies returned, None before

reconcileVars == <<reconcileSpecs, visitOrder, circular>>

VARIABLES
    convSpecs,    \* ConversationLoop.specs: the ids of the current task specs
    convInput,    \* the lines the reader has not yet returned
    convPc,       \* where run stands: "analyze", "read", "apply" or "done"
    convTurn,     \* the questions of the turn last presented, None before the first
    convAction,   \* the UserAction last read, None before the first
    convCalls,    \* history: the number of calls of ctx.llm.complete so far
    convResult    \* what run returned, None while it runs

conversationVars == <<convSpecs, convInput, convPc, convTurn, convAction, convCalls, convResult>>

VARIABLES
    surveyEnv,    \* what git and the file system answer during the survey
    surveyCache,  \* the file at .spec-cache/codebase_map.yaml, None when absent
    surveyLog,    \* history: the port calls of load_or_generate_map, in order
    surveyMap     \* what load_or_generate_map returned, None before

surveyVars == <<surveyEnv, surveyCache, surveyLog, surveyMap>>

VARIABLES
    syncSpecs,    \* the task specs of the store
    tracker,      \* the issues of the tracker, in the order of their creation
    syncRuns,     \* the number of sync runs so far
    syncLast      \* what the last sync run planned and returned, None before

syncVars == <<syncSpecs, tracker, syncRuns, syncLast>>

VARIABLES
    splitInput,   \* the content of the monolithic cassette file, None when unreadable
    splitOut,     \* the output directory: per port None, or the file of its directory
    splitResult   \* what split_cassette returned, None before

splitVars == <<splitInput, splitOut, splitResult>>

VARIABLES
    yamlCassette, \* the cassette that is serialized
    yamlText,     \* the YAML document serde_yaml::to_string gave, None before
    yamlBack      \* what serde_yaml::from_str gave for the document, None before

yamlVars == <<yamlCassette, yamlText, yamlBack>>

\* concurrent callers appending to one recorder behind Arc<Mutex<..>>
VARIABLES
    sharedRec,      \* the CassetteRecorder inside the mutex
    mutexHolder,    \* the caller holding the MutexGuard, or None
    callerPc,       \* each caller's position in record_result
    callerLocal,    \* the Interaction a caller has built inside record
    callerAppends,  \* appends each caller has returned from
    callersFile     \* the cassette written by finish, or None
callersVars == <<sharedRec, mutexHolder, callerPc, callerLocal, callerAppends, callersFile>>

\* the variables of the specifications that record and replay nothing
restVars ==
    <<collisionVars, liveVars, validateVars, feedbackVars, driftVars, reconcileVars, conversationVars, surveyVars, syncVars, splitVars, yamlVars, callersVars>>

sessionVars == <<pc, session, refs, frame, llmFuture, dir, outcome, innerCalls>>

vars == <<mode, recorder, recLog, disk, ctx, status, log, loaded, sessionVars, replayFuture,
          restVars>>

\* no recording session and no future anywhere
SessionIdle ==
    /\ pc = "idle"
    /\ session = None
    /\ refs = [p \in Ports |-> 0]
    /\ frame = None
    /\ llmFuture = None
    /\ dir = [p \in Ports |-> None]
    /\ outcome = [handler |-> None, finish |-> None, seen |-> None, io |-> None]
    /\ innerCalls = [p \in Ports |-> 0]

NoReplayFuture == replayFuture = [c \in Contexts |-> None]

(***************************************************************************)
(* Two processes constructing a RecordingSession.                          *)
(***************************************************************************)
Processes == {1, 2}
Seconds == {1, 2}

CollisionIdle ==
    /\ wall = 1
    /\ cassetteDirs = [t \in Seconds |-> None]
    /\ procs = [p \in Processes |-> [pc |-> "idle"]]

LiveIdle ==
    /\ liveCtx = None
    /\ liveLog = <<>>

ValidateIdle ==
    /\ taskSpec = None
    /\ checkResults = <<>>
    /\ shellLog = <<>>
    /\ validation = None

FeedbackIdle == feedback = None

DriftIdle ==
    /\ driftSpecs = <<>>
    /\ oldMap = None
    /\ newMap = None
    /\ driftReport = None

ReconcileIdle ==
    /\ reconcileSpecs = <<>>
    /\ visitOrder = <<>>
    /\ circular = None

ConversationIdle ==
    /\ convSpecs = <<>>
    /\ convInput = <<>>
    /\ convPc = "done"
    /\ convTurn = None
    /\ convAction = None
    /\ convCalls = 0
    /\ convResult = None

SurveyIdle ==
    /\ surveyEnv = None
    /\ surveyCache = None
    /\ surveyLog = <<>>
    /\ surveyMap = None

SyncIdle ==
    /\ syncSpecs = <<>>
    /\ tracker = <<>>
    /\ syncRuns = 0
    /\ syncLast = None

SplitIdle ==
    /\ splitInput = None
    /\ splitOut = <<>>
    /\ splitResult = None

YamlIdle ==
    /\ yamlCassette = None
    /\ yamlText = None
    /\ yamlBack = None

CallersIdle ==
    /\ sharedRec = None
    /\ mutexHolder = None
    /\ callerPc = <<>>
    /\ callerLocal = <<>>
    /\ callerAppends = <<>>
    /\ callersFile = None

\* every group of variables but those named in gs is idle
RestIdleExcept(gs) ==
    /\ IF "collision" \in gs THEN TRUE ELSE CollisionIdle
    /\ IF "live" \in gs THEN TRUE ELSE LiveIdle
    /\ IF "validate" \in gs THEN TRUE ELSE ValidateIdle
    /\ IF "feedback" \in gs THEN TRUE ELSE FeedbackIdle
    /\ IF "drift" \in gs THEN TRUE ELSE DriftIdle
    /\ IF "reconcile" \in gs THEN TRUE ELSE ReconcileIdle
    /\ IF "conversation" \in gs THEN TRUE ELSE ConversationIdle
    /\ IF "survey" \in gs THEN TRUE ELSE SurveyIdle
    /\ IF "sync" \in gs THEN TRUE ELSE SyncIdle
    /\ IF "split" \in gs THEN TRUE ELSE SplitIdle
    /\ IF "yaml" \in gs THEN TRUE ELSE YamlIdle
    /\ IF "callers" \in gs THEN TRUE ELSE CallersIdle

RestIdle == RestIdleExcept({})

CallRecord(op, arg, res) == [op |-> op, arg |-> arg, res |-> res]
ReplayRecord(op, arg, got, res) == [op |-> op, arg |-> arg, got |-> got, res |-> res]

Init ==
    /\ mode \in {"adapters", "context"}
    /\ recorder = RecorderNew("p1", "speck-session", "unknown")
    /\ recLog = <<>>
    /\ disk = [p \in Paths |-> None]
    /\ ctx = [c \in Contexts |-> None]
    /\ status = [c \in Contexts |-> "none"]
    /\ log = [c \in Contexts |-> <<>>]
    /\ loaded = [c \in Contexts |-> "none"]
    /\ SessionIdle
    /\ NoReplayFuture
    /\ RestIdle

(***************************************************************************)
(* Recording.                                                              *)
(***************************************************************************)
\* a port call on a recording adapter that wraps an inner adapter and shares
\* the recorder
RecordingPortCall ==
    /\ mode = "adapters"
    /\ recorder # None
    /\ Len(recLog) < MaxRecord
    /\ \E op \in Ops, arg \in FirstArgs :
         \E inner \in Results(op) :
            LET r == RecordingCall(recorder, op, arg, inner) IN
            /\ recorder' = r.rec
            /\ recLog' = Append(recLog, CallRecord(op, arg, r.res))
    /\ UNCHANGED <<mode, restVars, disk, ctx, status, log, loaded, sessionVars, replayFuture>>

\* the adapters are dropped, the recorder is taken out of its Arc and
\* finished: the cassette is written to the recorder's path
FinishRecorder ==
    /\ mode = "adapters"
    /\ recorder # None
    /\ \E now \in Instants :
         disk' = [disk EXCEPT ![recorder.path] = finish(recorder, now)]
    /\ recorder' = None
    /\ UNCHANGED <<mode, restVars, recLog, ctx, status, log, loaded, sessionVars, replayFuture>>

\* the ports ServiceContext::recording installs: the live adapters of clock,
\* fs, git and shell, panicking stubs for id_gen, llm and issues
RecordingContextLivePorts == {"clock", "fs", "git", "shell"}

NotConfiguredPanic(port) ==
    Panic([text |-> "port not configured in CassetteConfig", port |-> port])

\* a port call through the context built by ServiceContext::recording: the
\* call goes to the live adapter; the context's recorder is a private field
RecordingContextPortCall ==
    /\ mode = "context"
    /\ recorder # None
    /\ Len(recLog) < MaxRecord
    /\ \E op \in Ops, arg \in FirstArgs :
         /\ op.port \in RecordingContextLivePorts
         /\ \E res \in Results(op) : recLog' = Append(recLog, CallRecord(op, arg, res))
    /\ UNCHANGED <<mode, restVars, recorder, disk, ctx, status, log, loaded, sessionVars, replayFuture>>

\* a call of a stub port panics; unwinding drops the context, which finishes
\* its recorder
RecordingContextStubCall ==
    /\ mode = "context"
    /\ recorder # None
    /\ Len(recLog) < MaxRecord
    /\ \E op \in Ops, arg \in FirstArgs :
         /\ op.port \notin RecordingContextLivePorts
         /\ recLog' = Append(recLog, CallRecord(op, arg, NotConfiguredPanic(op.port)))
    /\ \E now \in Instants :
         disk' = [disk EXCEPT ![recorder.path] = finish(recorder, now)]
    /\ recorder' = None
    /\ UNCHANGED <<mode, restVars, ctx, status, log, loaded, sessionVars, replayFuture>>

\* Drop for ServiceContext: the recorder is taken and finished
DropRecordingContext ==
    /\ mode = "context"
    /\ recorder # None
    /\ \E now \in Instants :
         disk' = [disk EXCEPT ![recorder.path] = finish(recorder, now)]
    /\ recorder' = None
    /\ UNCHANGED <<mode, restVars, recLog, ctx, status, log, loaded, sessionVars, replayFuture>>

(***************************************************************************)
(* Replaying.                                                              *)
(***************************************************************************)
\* ServiceContext::replaying(path): every port gets its own replayer built
\* from the one cassette
ContextReplaying(cassette) == [p \in Ports |-> ReplayerNew(cassette)]

Replaying(c, path) ==
    /\ recorder = None
    /\ status[c] = "none"
    /\ disk[path] # None
    /\ ctx' = [ctx EXCEPT ![c] = ContextReplaying(disk[path])]
    /\ status' = [status EXCEPT ![c] = "running"]
    /\ loaded' = [loaded EXCEPT ![c] = path]
    /\ UNCHANGED <<mode, restVars, recorder, recLog, disk, log, sessionVars, replayFuture>>

\* one port call on replaying context c; a panic ends the replay
PortCall(c, op, arg) ==
    /\ status[c] = "running"
    /\ Len(log[c]) < MaxCalls
    /\ \E iter \in IterOrders(ctx[c][op.port]) :
         LET r == ReplayingCall(ctx[c][op.port], op, arg, iter) IN
         /\ ctx' = [ctx EXCEPT ![c][op.port] = r.rep]
         /\ log' = [log EXCEPT ![c] = Append(@, ReplayRecord(op, arg, r.got, r.res))]
         /\ status' = [status EXCEPT ![c] = IF r.res.kind = "panic" THEN "panicked" ELSE @]
    /\ UNCHANGED <<mode, restVars, recorder, recLog, disk, loaded, sessionVars, replayFuture>>

\* the replay of a recorded session repeats the recorded calls in order
ReplayRecorded ==
    /\ mode # "replay"
    /\ Len(log[1]) < Len(recLog)
    /\ LET call == recLog[Len(log[1]) + 1] IN PortCall(1, call.op, call.arg)

Next ==
    \/ RecordingPortCall
    \/ FinishRecorder
    \/ RecordingContextPortCall
    \/ RecordingContextStubCall
    \/ DropRecordingContext
    \/ Replaying(1, "p1")
    \/ ReplayRecorded

Spec == Init /\ [][Next]_vars

(***************************************************************************)
(* Replaying cassettes that are on disk already (written by hand or by an  *)
(* earlier session), by two replaying contexts one after the other.        *)
(***************************************************************************)
\* the forms in which a cassette may hold the output of op
EnvelopeOutputs(op) ==
    LET payload == Ser(Sample(ResultType(op))) IN
    {JObj([Ok |-> payload]), JObj([ok |-> payload]),
     JObj([Err |-> JStr("boom")]), JObj([err |-> JStr("boom")]),
     payload, JNum(7)}

\* the operations of the cassettes with several interactions: two of one
\* port and one of another, with outputs their replaying adapters decode
StreamOps == {Op("fs", "read_to_string"), Op("fs", "exists"), Op("id_gen", "generate_id")}

StreamOutputs(op) ==
    CASE op = Op("fs", "read_to_string") -> {JObj([ok |-> JStr("x")]), JObj([ok |-> JStr("y")])}
      [] op = Op("fs", "exists") -> {JBool(TRUE)}
      [] op = Op("id_gen", "generate_id") -> {JStr("x")}

Item(op, output) == [op |-> op, output |-> output]

StreamItems == UNION {{Item(op, out) : out \in StreamOutputs(op)} : op \in StreamOps}

\* a cassette written by hand: dense seq numbers from 0, every input made
\* from arg
HandCassette(items, arg) ==
    Cassette("test", 1, "abc",
             [i \in DOMAIN items |->
                Interaction(i - 1, items[i].op.port, items[i].op.method,
                            InputJson(items[i].op, arg), items[i].output)])

\* one interaction of any operation in any form of output
SingleItems == UNION {{<<Item(op, out)>> : out \in EnvelopeOutputs(op)} : op \in Ops}

\* up to MaxLen interactions on the stream operations
StreamSeqs == UNION {[1..n -> StreamItems] : n \in 0..MaxLen}

HandItems == SingleItems \cup StreamSeqs

\* the operations a replay calls: those of the cassette and the stream ones
CallOps(cassette) ==
    StreamOps \cup {Op(cassette.interactions[i].port, cassette.interactions[i].method) :
                      i \in DOMAIN cassette.interactions}

InitReplay ==
    /\ mode = "replay"
    /\ recorder = None
    /\ recLog = <<>>
    /\ \E items \in HandItems :
         disk = [p \in Paths |-> IF p = "p1" THEN HandCassette(items, "a")
                                 ELSE HandCassette(items, "b")]
    /\ ctx = [c \in Contexts |-> None]
    /\ status = [c \in Contexts |-> "none"]
    /\ log = [c \in Contexts |-> <<>>]
    /\ loaded = [c \in Contexts |-> "none"]
    /\ SessionIdle
    /\ NoReplayFuture
    /\ RestIdle

\* the first replay calls any operation
ReplayPortCall ==
    /\ mode = "replay"
    /\ \E op \in CallOps(disk["p1"]), arg \in FirstArgs : PortCall(1, op, arg)

\* the first replay ends: its context is dropped
DropReplaying ==
    /\ mode = "replay"
    /\ status[1] = "running"
    /\ status' = [status EXCEPT ![1] = "done"]
    /\ UNCHANGED <<mode, restVars, recorder, recLog, disk, ctx, log, loaded, sessionVars, replayFuture>>

\* a second replay starts from a fresh context once the first has ended
ReplayingAgain(path) ==
    /\ mode = "replay"
    /\ status[1] \in {"done", "panicked"}
    /\ Replaying(2, path)

\* the second replay repeats the operations of the first; it passes one
\* argument of its own choice to all its calls
ReplayAgainPortCall ==
    /\ mode = "replay"
    /\ Len(log[2]) < Len(log[1])
    /\ \E arg \in Args :
         /\ log[2] # <<>> => arg = log[2][1].arg
         /\ PortCall(2, log[1][Len(log[2]) + 1].op, arg)

NextReplay ==
    \/ Replaying(1, "p1")
    \/ ReplayPortCall
    \/ DropReplaying
    \/ \E path \in Paths : ReplayingAgain(path)
    \/ ReplayAgainPortCall

SpecReplay == InitReplay /\ [][NextReplay]_vars

(***************************************************************************)
(* A recording session: seven recorders shared with the recording          *)
(* adapters of a context, used by the command dispatcher or by a caller    *)
(* that holds the session and the adapters itself.                         *)
(***************************************************************************)
\* the operations the handler of a session calls: an infallible one, two
\* fallible ones and the asynchronous one; the other ports record nothing
SessionOps ==
    {Op("clock", "now"), Op("fs", "read_to_string"), Op("issues", "create_issue"),
     Op("llm", "complete")}

\* the wall clock when a session is finished
SessionInstants == {2}

LlmOp == Op("llm", "complete")

\* the directory name RecordingSession::new formats from the clock
Timestamp == "2025-03-15T14-30-00"

\* RecordingSession::new: one recorder per port, writing {port}.cassette.yaml
RecordingSessionNew(commit) ==
    [p \in Ports |-> RecorderNew(p \o ".cassette.yaml", Timestamp \o "-" \o p, commit)]

\* the order in which finish visits the ports
FinishOrder == <<"llm", "fs", "git", "clock", "shell", "id_gen", "issues">>

StillHasReferences(port) == RErr("Recording adapter for " \o port \o " still has references")
WriteFailed(port) == RErr("Failed to write " \o port \o " cassette")

\* what std::fs::write leaves behind when it fails after creating the file
Partial == [partial |-> TRUE]

\* the ports whose write may fail: the first, one in the middle and the last
\* in finish order
FailingPorts == {"llm", "git", "issues"}

\* how the write of each port's file goes: "ok", or it fails on "create" or
\* part-way, on "write"; at most one port's write fails
IoOutcomes ==
    {[p \in Ports |-> "ok"]} \cup
    {[p \in Ports |-> IF p = bad THEN kind ELSE "ok"] :
        bad \in FailingPorts, kind \in {"create", "write"}}

\* [mutant] a recorder without interactions is not written
finish_one_skipping_empty(rec, port, nrefs, io, now) ==
    IF nrefs > 0
    THEN [file |-> None, res |-> StillHasReferences(port)]
    ELSE IF rec.interactions = <<>> THEN [file |-> None, res |-> ROk(VUnit)]
    ELSE IF io = "create" THEN [file |-> None, res |-> WriteFailed(port)]
    ELSE IF io = "write" THEN [file |-> Partial, res |-> WriteFailed(port)]
    ELSE [file |-> finish(rec, now), res |-> ROk(VUnit)]

\* [mutant] the recorder is read through its lock, whoever else holds the Arc
finish_one_locking(rec, port, nrefs, io, now) ==
    IF io = "create" THEN [file |-> None, res |-> WriteFailed(port)]
    ELSE IF io = "write" THEN [file |-> Partial, res |-> WriteFailed(port)]
    ELSE [file |-> finish(rec, now), res |-> ROk(VUnit)]

\* finish_one: nrefs is the number of clones of the Arc besides the session's
finish_one(rec, port, nrefs, io, now) ==
    IF nrefs > 0
    THEN [file |-> None, res |-> StillHasReferences(port)]
    ELSE IF io = "create" THEN [file |-> None, res |-> WriteFailed(port)]
    ELSE IF io = "write" THEN [file |-> Partial, res |-> WriteFailed(port)]
    ELSE [file |-> finish(rec, now), res |-> ROk(VUnit)]

RECURSIVE FinishFrom(_, _, _, _, _, _)
FinishFrom(sess, rf, io, now, i, files) ==
    IF i > Len(FinishOrder)
    THEN [files |-> files, res |-> ROk(VString(".speck/cassettes/" \o Timestamp))]
    ELSE LET port == FinishOrder[i]
             one == finish_one(sess[port], port, rf[port], io[port], now)
             written == IF one.file = None THEN files ELSE [files EXCEPT ![port] = one.file]
         IN IF one.res.kind = "Err"
            THEN [files |-> written, res |-> one.res]
            ELSE FinishFrom(sess, rf, io, now, i + 1, written)

\* RecordingSession::finish: the files of the session directory afterwards
\* and the result
RecordingSession_finish(sess, rf, io, now, files) == FinishFrom(sess, rf, io, now, 1, files)

\* ServiceContext::recording(): a session, and for each port a recording
\* adapter that wraps a live adapter and holds a clone of the port's recorder
ServiceContextRecording(commit) ==
    [session |-> RecordingSessionNew(commit), refs |-> [p \in Ports |-> 1]]

\* [mutant] the session is finished while the context is still alive
dispatch_tail_finish_first(sess, rf, io, now, files) ==
    [seen |-> rf, fin |-> RecordingSession_finish(sess, rf, io, now, files)]

\* the end of dispatch in recording mode: drop(ctx), then finish_recording
dispatch_tail(sess, rf, io, now, files) ==
    LET dropped == [p \in Ports |-> 0]
    IN [seen |-> dropped, fin |-> RecordingSession_finish(sess, dropped, io, now, files)]

SessionModes == {"dispatch", "direct"}

\* history of a call that returned: what the inner adapter returned, what
\* the caller got, and the length of the port's recorder before and after
SessionCallRecord(op, arg, inner, res, base, after) ==
    [op |-> op, arg |-> arg, inner |-> inner, res |-> res, base |-> base, after |-> after]

InitSession ==
    /\ mode \in SessionModes
    /\ recorder = None
    /\ recLog = <<>>
    /\ disk = [p \in Paths |-> None]
    /\ ctx = [c \in Contexts |-> None]
    /\ status = [c \in Contexts |-> "none"]
    /\ log = [c \in Contexts |-> <<>>]
    /\ loaded = [c \in Contexts |-> "none"]
    /\ pc = "start"
    /\ session = None
    /\ refs = [p \in Ports |-> 0]
    /\ frame = None
    /\ llmFuture = None
    /\ dir = [p \in Ports |-> None]
    /\ outcome = [handler |-> None, finish |-> None, seen |-> None, io |-> None]
    /\ innerCalls = [p \in Ports |-> 0]
    /\ NoReplayFuture
    /\ RestIdle

replayVars == <<recorder, disk, ctx, status, log, loaded, replayFuture>>

\* ServiceContext::recording(), or the same wiring done by hand
SessionStart ==
    /\ mode \in SessionModes
    /\ pc = "start"
    /\ LET made == ServiceContextRecording("abc") IN
         /\ session' = made.session
         /\ refs' = made.refs
    /\ pc' = "handler"
    /\ UNCHANGED <<mode, restVars, recLog, frame, llmFuture, dir, outcome, innerCalls, replayVars>>

\* a synchronous recording adapter is called and delegates to its inner
\* adapter, which returns
InnerCall ==
    /\ pc = "handler"
    /\ frame = None
    /\ Len(recLog) < MaxRecord
    /\ \E op \in SessionOps \ {LlmOp}, arg \in FirstArgs :
         /\ refs[op.port] >= 1
         /\ \E inner \in Results(op) :
              frame' = [op |-> op, arg |-> arg, inner |-> inner,
                        base |-> Len(session[op.port].interactions)]
         /\ innerCalls' = [innerCalls EXCEPT ![op.port] = @ + 1]
    /\ UNCHANGED <<mode, restVars, recLog, pc, session, refs, llmFuture, dir, outcome, replayVars>>

\* the adapter records the call and returns the inner result
RecordReturn ==
    /\ pc = "handler"
    /\ frame # None
    /\ LET port == frame.op.port
           r == RecordingCall(session[port], frame.op, frame.arg, frame.inner)
       IN /\ session' = [session EXCEPT ![port] = r.rec]
          /\ recLog' = Append(recLog, SessionCallRecord(frame.op, frame.arg, frame.inner, r.res,
                                                        frame.base, Len(r.rec.interactions)))
    /\ frame' = None
    /\ UNCHANGED <<mode, restVars, pc, refs, llmFuture, dir, outcome, innerCalls, replayVars>>

\* RecordingLlmClient::complete: the request and the Arc are cloned into a
\* future; nothing runs until the future is polled
LlmComplete ==
    /\ pc = "handler"
    /\ frame = None
    /\ llmFuture = None
    /\ refs["llm"] >= 1
    /\ Len(recLog) < MaxRecord
    /\ \E arg \in FirstArgs :
         llmFuture' = [arg |-> arg, state |-> "created", inner |-> None,
                       base |-> Len(session["llm"].interactions)]
    /\ refs' = [refs EXCEPT !["llm"] = @ + 1]
    /\ UNCHANGED <<mode, restVars, recLog, pc, session, frame, dir, outcome, innerCalls, replayVars>>

\* the first poll calls the inner client and waits for its future
LlmPollStart ==
    /\ pc = "handler"
    /\ llmFuture # None
    /\ llmFuture.state = "created"
    /\ innerCalls["llm"] < MaxRecord
    /\ llmFuture' = [llmFuture EXCEPT !.state = "awaiting"]
    /\ innerCalls' = [innerCalls EXCEPT !["llm"] = @ + 1]
    /\ UNCHANGED <<mode, restVars, recLog, pc, session, refs, frame, dir, outcome, replayVars>>

\* the inner future resolves
LlmInnerResolves ==
    /\ pc = "handler"
    /\ llmFuture # None
    /\ llmFuture.state = "awaiting"
    /\ \E inner \in Results(LlmOp) :
         llmFuture' = [llmFuture EXCEPT !.state = "inner_ready", !.inner = inner]
    /\ UNCHANGED <<mode, restVars, recLog, pc, session, refs, frame, dir, outcome, innerCalls, replayVars>>

\* [mutant] the wrapper resolves and leaves the recording to a task that
\* has not run yet
RecordingLlmClient_poll_detached(rec, arg, inner) == [rec |-> rec, res |-> inner]

\* the poll that finds the inner future resolved: record_result, then the
\* wrapper's future resolves with the inner result
RecordingLlmClient_poll(rec, arg, inner) == RecordingCall(rec, LlmOp, arg, inner)

\* the wrapper is polled after the inner future resolved; the caller
\* observes the result and the future, with its clone of the Arc, is gone
LlmPollReady ==
    /\ pc = "handler"
    /\ llmFuture # None
    /\ llmFuture.state = "inner_ready"
    /\ LET r == RecordingLlmClient_poll(session["llm"], llmFuture.arg, llmFuture.inner)
       IN /\ session' = [session EXCEPT !["llm"] = r.rec]
          /\ recLog' = Append(recLog, SessionCallRecord(LlmOp, llmFuture.arg, llmFuture.inner, r.res,
                                                        llmFuture.base, Len(r.rec.interactions)))
    /\ llmFuture' = None
    /\ refs' = [refs EXCEPT !["llm"] = @ - 1]
    /\ UNCHANGED <<mode, restVars, pc, frame, dir, outcome, innerCalls, replayVars>>

\* the caller drops the future before it resolved
LlmDrop ==
    /\ pc = "handler"
    /\ llmFuture # None
    /\ llmFuture' = None
    /\ refs' = [refs EXCEPT !["llm"] = @ - 1]
    /\ UNCHANGED <<mode, restVars, recLog, pc, session, frame, dir, outcome, innerCalls, replayVars>>

\* the command handler returns; no call is under way and no future of the
\* context's adapters is alive
HandlerReturns ==
    /\ pc = "handler"
    /\ frame = None
    /\ llmFuture = None
    /\ \E res \in {ROk(VUnit), RErr("handler failed")} :
         outcome' = [outcome EXCEPT !.handler = res]
    /\ pc' = "handler_done"
    /\ UNCHANGED <<mode, restVars, recLog, session, refs, frame, llmFuture, dir, innerCalls, replayVars>>

\* dispatch: the context is dropped and the session finished
DispatchFinish ==
    /\ mode = "dispatch"
    /\ pc = "handler_done"
    /\ \E io \in IoOutcomes, now \in SessionInstants :
         LET t == dispatch_tail(session, refs, io, now, dir) IN
         /\ dir' = t.fin.files
         /\ outcome' = [outcome EXCEPT !.finish = t.fin.res, !.seen = t.seen, !.io = io]
    /\ refs' = [p \in Ports |-> 0]
    /\ session' = None
    /\ pc' = "returned"
    /\ UNCHANGED <<mode, restVars, recLog, frame, llmFuture, innerCalls, replayVars>>

\* the adapters a caller that holds them itself may keep when it drops the
\* others: none, any one, or the first two in finish order
HeldSets == {{}} \cup {{p} : p \in Ports} \cup {{"llm", "fs"}}

\* a caller that holds the adapters itself drops them, except those in held
DropAdapters(held) ==
    /\ mode = "direct"
    /\ pc = "handler_done"
    /\ frame = None
    /\ llmFuture = None
    /\ \A p \in Ports : refs[p] = 1
    /\ refs' = [p \in Ports |-> IF p \in held THEN 1 ELSE 0]
    /\ UNCHANGED <<mode, restVars, recLog, pc, session, frame, llmFuture, dir, outcome, innerCalls, replayVars>>

\* a caller that holds the session itself calls finish, whatever it has
\* dropped before
DirectFinish ==
    /\ mode = "direct"
    /\ pc \in {"handler", "handler_done"}
    /\ frame = None
    /\ \E io \in IoOutcomes, now \in SessionInstants :
         LET fin == RecordingSession_finish(session, refs, io, now, dir) IN
         /\ dir' = fin.files
         /\ outcome' = [outcome EXCEPT !.finish = fin.res, !.seen = refs, !.io = io]
    /\ session' = None
    /\ pc' = "returned"
    /\ UNCHANGED <<mode, restVars, recLog, refs, frame, llmFuture, innerCalls, replayVars>>

NextSession ==
    \/ SessionStart
    \/ InnerCall
    \/ RecordReturn
    \/ LlmComplete
    \/ LlmPollStart
    \/ LlmInnerResolves
    \/ LlmPollReady
    \/ LlmDrop
    \/ HandlerReturns
    \/ DispatchFinish
    \/ \E held \in HeldSets : DropAdapters(held)
    \/ DirectFinish

SpecSession == InitSession /\ [][NextSession]_vars

(***************************************************************************)
(* Per-port replay: a context built from a CassetteConfig, and the future  *)
(* llm.complete returns, awaited or dropped by the caller.                 *)
(***************************************************************************)
\* the llm cassettes: up to MaxLen completions, each one of two responses
LlmOutputs ==
    {JObj([ok |-> Ser(CompletionResponse("world", 5, 1))]),
     JObj([ok |-> Ser(CompletionResponse("again", 5, 1))])}

LlmSeqs == UNION {[1..n -> {Item(LlmOp, out) : out \in LlmOutputs}] : n \in 0..MaxLen}

\* the cassette of the synchronous ports
SyncItems == <<Item(Op("clock", "now"), JStr("2025-03-15T14:30:00Z")),
               Item(Op("fs", "exists"), JBool(TRUE))>>

\* the operations a per-port replay calls; git is never configured
PortsOps == {LlmOp, Op("clock", "now"), Op("fs", "exists"), Op("git", "diff")}

\* CassetteConfig: an optional path per port
CassetteConfigs ==
    {[p \in Ports |-> CASE p = "llm" -> l [] p = "clock" -> k [] p = "fs" -> f [] OTHER -> None] :
        l \in {None, Some("p1")}, k \in {None, Some("p2")}, f \in {None, Some("p2")}}

\* CassetteConfig::load_all: a replayer for every configured port
load_all(config, files) ==
    [p \in Ports |-> IF config[p] = None THEN None
                     ELSE Some(ReplayerNew(files[config[p].some]))]

\* [mutant] a port without a cassette gets a replayer of an empty cassette
ServiceContextReplayingFromDefaulting(config, files) ==
    LET replayers == load_all(config, files)
    IN [p \in Ports |-> IF replayers[p] = None
                        THEN ReplayerNew(Cassette("empty", 1, "abc", <<>>))
                        ELSE replayers[p].some]

\* ServiceContext::replaying_from: a replaying adapter on the port's own
\* replayer, or for a port without one the panicking stub, here None
ServiceContextReplayingFrom(config, files) ==
    LET replayers == load_all(config, files)
    IN [p \in Ports |-> IF replayers[p] = None THEN None ELSE replayers[p].some]

\* [mutant] dropping the future puts its interaction back
ReplayingLlmFuture_drop_requeues(rep) ==
    [rep EXCEPT !.cursors[LlmOp] = @ - 1]

\* dropping the future ReplayingLlmClient::complete returned: it is
\* future::ready(result) and holds nothing of the replayer
ReplayingLlmFuture_drop(rep) == rep

InitPorts ==
    /\ mode = "ports"
    /\ recorder = None
    /\ recLog = <<>>
    /\ \E items \in LlmSeqs :
         disk = [p \in Paths |-> IF p = "p1" THEN HandCassette(items, "a")
                                 ELSE HandCassette(SyncItems, "a")]
    /\ ctx = [c \in Contexts |-> None]
    /\ status = [c \in Contexts |-> "none"]
    /\ log = [c \in Contexts |-> <<>>]
    /\ loaded = [c \in Contexts |-> None]
    /\ SessionIdle
    /\ NoReplayFuture
    /\ RestIdle

\* the first context is built from any config; the second, once the first
\* has ended, from the same config
ReplayingFrom(c, config) ==
    /\ mode = "ports"
    /\ status[c] = "none"
    /\ c = 2 => status[1] \in {"done", "panicked"} /\ config = loaded[1]
    /\ ctx' = [ctx EXCEPT ![c] = ServiceContextReplayingFrom(config, disk)]
    /\ status' = [status EXCEPT ![c] = "running"]
    /\ loaded' = [loaded EXCEPT ![c] = config]
    /\ UNCHANGED <<mode, restVars, recorder, recLog, disk, log, sessionVars, replayFuture>>

\* the operations context c may call next: the first context any, the second
\* those of the first in order
NextOps(c) ==
    IF c = 1 THEN PortsOps
    ELSE IF Len(log[2]) < Len(log[1]) THEN {log[1][Len(log[2]) + 1].op} ELSE {}

\* a call on a port of a per-port context: the stub of an unconfigured port
\* panics, a replaying adapter replays; the future of llm.complete is ready
\* when complete returns and the caller holds it
PortsCall(c, op, arg) ==
    /\ mode = "ports"
    /\ status[c] = "running"
    /\ replayFuture[c] = None
    /\ Len(log[c]) < MaxCalls
    /\ op \in NextOps(c)
    /\ IF ctx[c][op.port] = None
       THEN /\ log' = [log EXCEPT ![c] = Append(@, ReplayRecord(op, arg, None,
                                                               NotConfiguredPanic(op.port)))]
            /\ status' = [status EXCEPT ![c] = "panicked"]
            /\ UNCHANGED <<ctx, replayFuture>>
       ELSE \E iter \in IterOrders(ctx[c][op.port]) :
               LET r == ReplayingCall(ctx[c][op.port], op, arg, iter) IN
               /\ ctx' = [ctx EXCEPT ![c][op.port] = r.rep]
               /\ log' = [log EXCEPT ![c] = Append(@, ReplayRecord(op, arg, r.got, r.res))]
               /\ status' = [status EXCEPT ![c] = IF r.res.kind = "panic" THEN "panicked" ELSE @]
               /\ replayFuture' = [replayFuture EXCEPT ![c] =
                                      IF op = LlmOp /\ r.res.kind # "panic"
                                      THEN [call |-> Len(log[c]) + 1, fate |-> "pending"]
                                      ELSE @]
    /\ UNCHANGED <<mode, restVars, recorder, recLog, disk, loaded, sessionVars>>

\* the caller awaits the future and observes its result
AwaitFuture(c) ==
    /\ mode = "ports"
    /\ replayFuture[c] # None
    /\ replayFuture[c].fate = "pending"
    /\ replayFuture' = [replayFuture EXCEPT ![c] = None]
    /\ UNCHANGED <<mode, restVars, recorder, recLog, disk, ctx, status, log, loaded, sessionVars>>

\* the caller of the second context drops the future instead; the log keeps
\* what the future held, marked as never observed
DropFuture(c) ==
    /\ mode = "ports"
    /\ c = 2
    /\ replayFuture[c] # None
    /\ ctx' = [ctx EXCEPT ![c]["llm"] = ReplayingLlmFuture_drop(@)]
    /\ log' = [log EXCEPT ![c][replayFuture[c].call] =
                  [op |-> @.op, arg |-> @.arg, got |-> @.got, res |-> @.res, dropped |-> TRUE]]
    /\ replayFuture' = [replayFuture EXCEPT ![c] = None]
    /\ UNCHANGED <<mode, restVars, recorder, recLog, disk, status, loaded, sessionVars>>

\* the first context is dropped
DropPorts ==
    /\ mode = "ports"
    /\ status[1] = "running"
    /\ replayFuture[1] = None
    /\ status' = [status EXCEPT ![1] = "done"]
    /\ UNCHANGED <<mode, restVars, recorder, recLog, disk, ctx, log, loaded, sessionVars, replayFuture>>

NextPorts ==
    \/ \E c \in Contexts, config \in CassetteConfigs : ReplayingFrom(c, config)
    \/ \E c \in Contexts, op \in PortsOps, arg \in FirstArgs : PortsCall(c, op, arg)
    \/ \E c \in Contexts : AwaitFuture(c)
    \/ \E c \in Contexts : DropFuture(c)
    \/ DropPorts

SpecPorts == InitPorts /\ [][NextPorts]_vars

(***************************************************************************)
(* Properties.                                                             *)
(***************************************************************************)
\* the cassette replaying context c was built from
CassetteOf(c) == disk[loaded[c]]

\* the interactions of a cassette on the stream of op, in cassette order
StreamOf(cassette, op) ==
    SelectSeq(cassette.interactions, LAMBDA x : x.port = op.port /\ x.method = op.method)

\* the i-th call of a log is the Rank-th call on its stream
Rank(lg, i) == Cardinality({j \in 1..i : lg[j].op = lg[i].op})

\* the position in the cassette of the k-th interaction on the stream of op
StreamIndex(cassette, op, k) ==
    CHOOSE n \in DOMAIN cassette.interactions :
        /\ PortMethodKey(cassette.interactions[n]) = op
        /\ Cardinality({m \in 1..n : PortMethodKey(cassette.interactions[m]) = op}) = k

\* the member of a recorded output that marks a failure, in either spelling
ErrMember(output) == or_else(get(output, "Err"), get(output, "err"))

\* the member of a recorded output that holds a success payload
OkMember(output) == or_else(get(output, "Ok"), get(output, "ok"))

\* C1: a call recorded through a recording adapter whose inner adapter
\* returned R is replayed as R: whenever the replay of a recorded session is
\* served a recorded interaction, the replaying adapter returns what the
\* recording adapter returned for the call that recorded it.
C1_RecordReplayRoundTrip ==
    mode = "adapters" =>
        \A i \in DOMAIN log[1] :
            log[1][i].got # None => log[1][i].res = recLog[log[1][i].got.seq + 1].res

\* C2: the k-th call on a (port, method) stream is served the k-th
\* interaction of the cassette with that key, whatever calls on other
\* streams come in between.
C2_PerStreamOrder ==
    \A c \in Contexts : \A i \in DOMAIN log[c] :
        LET q == StreamOf(CassetteOf(c), log[c][i].op)
            k == Rank(log[c], i)
        IN k <= Len(q) => log[c][i].got = q[k]

C2_Witness ==
    \E c \in Contexts : \E i, j, k \in DOMAIN log[c] :
        /\ i < j /\ j < k
        /\ log[c][i].op = log[c][k].op
        /\ log[c][j].op # log[c][i].op
        /\ log[c][k].got # None
        /\ log[c][k].got.seq = 2 /\ log[c][i].got.seq = 0

\* C3: on a stream with n >= 1 recorded interactions the (n+1)-th call is a
\* fatal error that names the stream's port and method, and no interaction
\* is returned.
C3_ExhaustionFatal ==
    \A c \in Contexts : \A i \in DOMAIN log[c] :
        LET q == StreamOf(CassetteOf(c), log[c][i].op)
            r == log[c][i]
        IN (Len(q) >= 1 /\ Rank(log[c], i) = Len(q) + 1) =>
              /\ r.res.kind = "panic"
              /\ r.got = None
              /\ "port" \in DOMAIN r.res.panic
              /\ r.res.panic.port = r.op.port
              /\ r.res.panic.method = r.op.method

C3_Witness ==
    \E c \in Contexts : \E i \in DOMAIN log[c] :
        /\ Len(StreamOf(CassetteOf(c), log[c][i].op)) = 2
        /\ Rank(log[c], i) = 3
        /\ status[c] = "panicked"

\* C4: a call for a (port, method) pair that does not occur in the cassette
\* is a fatal error that names the requested pair and lists exactly the
\* pairs the cassette contains.
C4_UnknownKeyFatal ==
    \A c \in Contexts : \A i \in DOMAIN log[c] :
        LET cas == CassetteOf(c)
            r == log[c][i]
            present == {KeyName(PortMethodKey(cas.interactions[n])) : n \in DOMAIN cas.interactions}
        IN StreamOf(cas, r.op) = <<>> =>
              /\ r.res.kind = "panic"
              /\ r.got = None
              /\ "available" \in DOMAIN r.res.panic
              /\ r.res.panic.port = r.op.port
              /\ r.res.panic.method = r.op.method
              /\ {r.res.panic.available[n] : n \in DOMAIN r.res.panic.available} = present

C4_Witness ==
    \E c \in Contexts : \E i \in DOMAIN log[c] :
        /\ StreamOf(CassetteOf(c), log[c][i].op) = <<>>
        /\ log[c][i].res.kind = "panic"
        /\ Len(log[c][i].res.panic.available) = 2

\* the results of a fresh replaying context that makes the calls of the
\* cassette in their recorded order
RECURSIVE InOrderFrom(_, _, _)
InOrderFrom(cx, ints, n) ==
    IF n > Len(ints) THEN <<>>
    ELSE LET op == PortMethodKey(ints[n])
             iter == CHOOSE f \in IterOrders(cx[op.port]) : TRUE
             r == ReplayingCall(cx[op.port], op, "a", iter)
         IN <<r.res>> \o InOrderFrom([cx EXCEPT ![op.port] = r.rep], ints, n + 1)

InOrderResults(cassette) ==
    InOrderFrom(ContextReplaying(cassette), cassette.interactions, 1)

\* C5: calls on different streams may be interleaved in any way: as long as
\* a replay keeps the recorded order within each stream, every call is
\* served without a fatal error and gets the result the same call gets when
\* the recorded calls are replayed in their recorded order.
C5_CrossStreamIndependence ==
    \A c \in Contexts : \A i \in DOMAIN log[c] :
        LET cas == CassetteOf(c)
            ref == InOrderResults(cas)
            r == log[c][i]
            k == Rank(log[c], i)
        IN (/\ \A n \in DOMAIN ref : ref[n].kind # "panic"
            /\ k <= Len(StreamOf(cas, r.op))) =>
              /\ r.res.kind # "panic"
              /\ r.res = ref[StreamIndex(cas, r.op, k)]

C5_Witness ==
    \E c \in Contexts : \E i, j \in DOMAIN log[c] :
        /\ i < j
        /\ log[c][i].got # None /\ log[c][j].got # None
        /\ log[c][i].got.seq > log[c][j].got.seq
        /\ log[c][i].res.kind # "panic" /\ log[c][j].res.kind # "panic"
        /\ log[c][i].res # log[c][j].res

\* C6: a recorded output {"Err": msg}, and equally {"err": msg}, of a
\* fallible operation is replayed as a failure whose message is msg.
C6_FailureEnvelope ==
    \A c \in Contexts : \A i \in DOMAIN log[c] :
        LET r == log[c][i] IN
        (/\ r.got # None
         /\ r.op \notin Infallible
         /\ IsStr(ErrMember(r.got.output))) =>
            r.res = RErr(ErrMember(r.got.output).s)

\* C7: a recorded output {"Ok": payload}, and equally {"ok": payload}, of a
\* fallible operation is replayed as success with the value decoded from
\* payload; the bare payload of an infallible operation is decoded directly.
C7_SuccessEnvelope ==
    \A c \in Contexts : \A i \in DOMAIN log[c] :
        LET r == log[c][i] IN
        r.got # None =>
            /\ (/\ r.op \notin Infallible
                /\ ErrMember(r.got.output) = None
                /\ OkMember(r.got.output) # None
                /\ Decode(r.op, OkMember(r.got.output)).kind = "Ok") =>
                    r.res = Decode(r.op, OkMember(r.got.output))
            /\ (/\ r.op \in Infallible
                /\ De(ResultType(r.op), r.got.output) # None) =>
                    r.res = RVal(De(ResultType(r.op), r.got.output))

\* C8: two replays from fresh contexts built from the same cassette that
\* make the same calls return the same results call for call (a call that
\* ends one replay with a fatal error ends the other one too).
C8_Determinism ==
    loaded[1] = loaded[2] =>
        \A i \in DOMAIN log[2] :
            (\A j \in 1..i : log[2][j].op = log[1][j].op /\ log[2][j].arg = log[1][j].arg) =>
                /\ log[2][i].res.kind = log[1][i].res.kind
                /\ log[2][i].res.kind # "panic" => log[2][i].res = log[1][i].res

C8_Witness ==
    /\ loaded[1] = loaded[2]
    /\ Len(log[2]) >= 2
    /\ \A j \in 1..2 : log[2][j].arg = log[1][j].arg /\ log[2][j].res.kind # "panic"
    /\ log[2][1].op = log[2][2].op
    /\ log[2][1].res # log[2][2].res

\* C9: the result of a replayed call depends only on its (port, method) and
\* on the number of earlier calls on that stream: a replay that passes other
\* arguments, or reads a cassette whose input fields differ, gets the same
\* results.
C9_InputsNeverMatched ==
    \A i \in DOMAIN log[2] :
        (\A j \in 1..i : log[2][j].op = log[1][j].op) =>
            /\ log[2][i].res.kind = log[1][i].res.kind
            /\ log[2][i].res.kind # "panic" => log[2][i].res = log[1][i].res

C9_Witness ==
    /\ loaded[2] = "p2"
    /\ Len(log[2]) >= 2
    /\ \A j \in 1..2 :
         /\ log[2][j].arg # log[1][j].arg
         /\ log[2][j].got # None
         /\ log[2][j].got.input # log[1][j].got.input
         /\ log[2][j].res.kind # "panic"

\* C10: once a recording has been finished, the cassette on disk holds, in
\* call order, one interaction for every port call that returned while
\* recording.
C10_EveryCallRecorded ==
    (mode \in {"adapters", "context"} /\ recorder = None) =>
        LET ints == disk["p1"].interactions
            returned == SelectSeq(recLog, LAMBDA call : call.res.kind # "panic")
        IN /\ Len(ints) = Len(returned)
           /\ \A i \in DOMAIN ints :
                /\ PortMethodKey(ints[i]) = returned[i].op
                /\ ints[i].input = InputJson(returned[i].op, returned[i].arg)


\* C13: after N record calls on a fresh recorder followed by finish, the
\* written cassette holds exactly the N recorded interactions in call order,
\* with seq fields 0..N-1; the recorder's own list is numbered the same way
\* at every moment.
C13_MonotonicSeq ==
    /\ recorder # None =>
         /\ recorder.next_seq = Len(recorder.interactions)
         /\ \A i \in DOMAIN recorder.interactions : recorder.interactions[i].seq = i - 1
    /\ (mode = "adapters" /\ disk["p1"] # None) =>
         LET ints == disk["p1"].interactions IN
         /\ Len(ints) = Len(recLog)
         /\ \A i \in DOMAIN ints :
               /\ ints[i].seq = i - 1
               /\ PortMethodKey(ints[i]) = recLog[i].op
               /\ ints[i].input = InputJson(recLog[i].op, recLog[i].arg)

C13_Witness ==
    /\ mode = "adapters"
    /\ disk["p1"] # None
    /\ Len(disk["p1"].interactions) = 2
    /\ disk["p1"].interactions[1].seq = 0
    /\ disk["p1"].interactions[2].seq = 1

\* the result of a call that missed: the panic of next_interaction, not the
\* panic of an adapter that could not decode what it was served
IsMiss(res) == res.kind = "panic" /\ "port" \in DOMAIN res.panic

\* C14: a miss (unknown key or exhausted stream) is fatal, serves no
\* interaction, and leaves every queue and cursor of every replayer, and the
\* cassette files, unchanged.
C14_NoRecordingOnMiss ==
    [][\A c \in Contexts :
         (Len(log'[c]) = Len(log[c]) + 1 /\ IsMiss(log'[c][Len(log'[c])].res))
            => /\ ctx'[c] = ctx[c]
               /\ disk' = disk
               /\ log'[c][Len(log'[c])].got = None
               /\ status'[c] = "panicked"]_vars

C14_Witness ==
    /\ status[1] = "panicked"
    /\ Len(log[1]) >= 2
    /\ log[1][1].got # None
    /\ log[1][Len(log[1])].res.kind = "panic"
    /\ "available" \in DOMAIN log[1][Len(log[1])].res.panic


\* the calls of the session's log on a port, and the rank of the i-th call
\* among those of its port
CallsOn(port) == {j \in DOMAIN recLog : recLog[j].op.port = port}
SessionRank(i) == Cardinality({j \in 1..i : recLog[j].op.port = recLog[i].op.port})

\* C11: every call on a recording adapter that returned has appended exactly
\* one interaction to its recorder, with its key and input; the interaction
\* is appended after the inner adapter returned (while the inner result is
\* held and not yet recorded, the recorder is as it was before the call); a
\* failed call is recorded with the failure's message.
C11_RecordingAfterInnerCall ==
    (mode \in SessionModes /\ session # None) =>
        /\ \A p \in Ports : Len(session[p].interactions) = Cardinality(CallsOn(p))
        /\ \A i \in DOMAIN recLog :
             LET e == recLog[i]
                 ints == session[e.op.port].interactions
                 k == SessionRank(i)
             IN /\ e.after = e.base + 1
                /\ e.after = k
                /\ PortMethodKey(ints[k]) = e.op
                /\ ints[k].input = InputJson(e.op, e.arg)
                /\ e.inner.kind = "Err" => ints[k].output = JObj([Err |-> JStr(e.inner.msg)])
                /\ e.inner.kind = "Ok" => get(ints[k].output, "Ok") = Ser(e.inner.val)
        /\ frame # None => Len(session[frame.op.port].interactions) = frame.base

C11_Witness ==
    /\ mode \in SessionModes
    /\ session # None
    /\ frame # None
    /\ frame.base = 1
    /\ Len(recLog) = 1
    /\ recLog[1].inner.kind = "Err"
    /\ recLog[1].op = frame.op

IsCassetteFile(file) == file # None /\ file # Partial

\* C16: finish consumes the session, so that it is flushed once; when finish
\* succeeds, each of the seven ports has its cassette file, named for the
\* port and holding the port's recorded interactions, also a port that
\* recorded none.
C16_FinishWritesAllSeven ==
    (mode \in SessionModes /\ outcome.finish # None) =>
        /\ session = None
        /\ pc = "returned"
        /\ outcome.finish.kind = "Ok" =>
             \A p \in Ports :
                /\ IsCassetteFile(dir[p])
                /\ dir[p].name = Timestamp \o "-" \o p
                /\ Len(dir[p].interactions) = Cardinality(CallsOn(p))
                /\ \A k \in DOMAIN dir[p].interactions : dir[p].interactions[k].port = p

C16_Witness ==
    /\ mode \in SessionModes
    /\ outcome.finish # None
    /\ outcome.finish.kind = "Ok"
    /\ \A p \in Ports : IsCassetteFile(dir[p])
    /\ dir["git"].interactions = <<>>
    /\ Len(dir["fs"].interactions) = 1
    /\ Len(dir["llm"].interactions) = 1

\* the ports whose recorder was still referenced when finish was called, and
\* the position in finish order of the first of them
HeldAtFinish == {p \in Ports : outcome.seen[p] > 0}
FirstHeld == CHOOSE i \in DOMAIN FinishOrder :
                 /\ FinishOrder[i] \in HeldAtFinish
                 /\ \A j \in 1..(i - 1) : FinishOrder[j] \notin HeldAtFinish

C19_LlmRecordedBeforeResolve ==
    (mode \in SessionModes /\ session # None) =>
        /\ \A i \in DOMAIN recLog :
             recLog[i].op = LlmOp =>
                LET e == recLog[i]
                    ints == session["llm"].interactions
                    k == SessionRank(i)
                IN /\ k <= Len(ints)
                   /\ PortMethodKey(ints[k]) = LlmOp
                   /\ ints[k].input = InputJson(LlmOp, e.arg)
                   /\ e.res.kind = "Ok" => get(ints[k].output, "Ok") = Ser(e.res.val)
                   /\ e.res.kind = "Err" => get(ints[k].output, "Err") = JStr(e.res.msg)
        /\ llmFuture # None => Len(session["llm"].interactions) = llmFuture.base

C19_Witness ==
    /\ mode \in SessionModes
    /\ session # None
    /\ Len(recLog) = 1
    /\ recLog[1].op = LlmOp
    /\ recLog[1].res.kind = "Ok"
    /\ llmFuture # None
    /\ llmFuture.state = "inner_ready"
    /\ Len(session["llm"].interactions) = 1


\* C15: in per-port replay a call of any operation of a port without a
\* cassette panics with the message that names the port, serves nothing and
\* ends the context; a call on a configured port replays from the port's own
\* cassette: the k-th call on a stream is served the stream's k-th
\* interaction and returns what its adapter decodes from it.
C15_UnconfiguredPortPanics ==
    mode = "ports" =>
        \A c \in Contexts : \A i \in DOMAIN log[c] :
            LET e == log[c][i]
                slot == loaded[c][e.op.port]
            IN IF slot = None
               THEN /\ e.res = NotConfiguredPanic(e.op.port)
                    /\ e.res.panic.port = e.op.port
                    /\ e.got = None
                    /\ i = Len(log[c])
                    /\ status[c] = "panicked"
               ELSE LET q == StreamOf(disk[slot.some], e.op)
                        k == Rank(log[c], i)
                    IN k <= Len(q) => /\ e.got = q[k]
                                      /\ e.res = Decode(e.op, q[k].output)

C15_Witness ==
    /\ mode = "ports"
    /\ loaded[1] # None
    /\ loaded[1]["clock"] # None
    /\ loaded[1]["fs"] = None
    /\ Len(log[1]) = 2
    /\ log[1][1].op = Op("clock", "now")
    /\ log[1][1].res = RVal(VTime(1))
    /\ log[1][2].op = Op("fs", "exists")
    /\ log[1][2].res = NotConfiguredPanic("fs")
    /\ status[1] = "panicked"

\* C20: a replay that drops futures of llm.complete instead of awaiting them
\* gets, from every call it makes, the interaction and the result that a
\* replay of the same cassettes making the same calls and awaiting every
\* future gets.
C20_DroppedFutureNoEffect ==
    mode = "ports" =>
        \A i \in DOMAIN log[2] :
            /\ log[2][i].op = log[1][i].op
            /\ log[2][i].got = log[1][i].got
            /\ log[2][i].res.kind = log[1][i].res.kind
            /\ log[2][i].res.kind # "panic" => log[2][i].res = log[1][i].res

C20_Witness ==
    /\ mode = "ports"
    /\ Len(log[2]) >= 2
    /\ "dropped" \in DOMAIN log[2][1]
    /\ log[2][2].op = LlmOp
    /\ log[2][2].res.kind = "Ok"
    /\ log[2][2].res = log[1][2].res
    /\ log[2][2].res # log[2][1].res
    /\ replayFuture[2] = None


\* the payload of a recorded output: the member of its success envelope, or
\* the output itself when it has no envelope
PayloadOf(output) == IF OkMember(output) # None THEN OkMember(output) ELSE output

\* a recorded output that is no failure envelope and whose payload cannot be
\* decoded into the result type of op
Undecodable(op, output) ==
    /\ ErrMember(output) = None
    /\ De(ResultType(op), IF op \in Infallible THEN output ELSE PayloadOf(output)) = None

\* the failure messages that say that deserializing failed
DeserializeMessages == {KeyName(op) \o ": failed to deserialize" : op \in Ops}

\* C21: a recorded output that cannot be decoded into the result type of its
\* operation is replayed as a failure of the port that says deserializing
\* failed (a panic for an operation that cannot return an error), never as
\* a success holding default values.
C21_DeserializationErrorSurfaced ==
    \A c \in Contexts : \A i \in DOMAIN log[c] :
        LET r == log[c][i] IN
        (r.got # None /\ Undecodable(r.op, r.got.output)) =>
            \/ r.res.kind = "Err" /\ r.res.msg \in DeserializeMessages
            \/ r.res.kind = "panic"

\* C22: CassetteRecorder::finish writes atomically: at every moment the
\* output path of every recorder holds its previous state (no file, in a new
\* session directory) or a complete cassette, never a partly written file,
\* also after a write that failed part-way.
C22_AtomicWrite ==
    \A p \in Ports : dir[p] = None \/ IsCassetteFile(dir[p])

(***************************************************************************)
(* Session directory collision: two processes construct a RecordingSession *)
(* and finish it, while the wall clock advances.                           *)
(***************************************************************************)
\* the state of the recording and replaying machinery where it is not used
RecordReplayIdle ==
    /\ recorder = None
    /\ recLog = <<>>
    /\ disk = [p \in Paths |-> None]
    /\ ctx = [c \in Contexts |-> None]
    /\ status = [c \in Contexts |-> "none"]
    /\ log = [c \in Contexts |-> <<>>]
    /\ loaded = [c \in Contexts |-> "none"]
    /\ SessionIdle
    /\ NoReplayFuture

\* a cassette file written by the session of process p; 0 is a session that
\* ended before the two processes started
FileOf(p) == [writer |-> p]

\* a directory create_dir_all has just made
EmptyDir == [port \in Ports |-> None]
\* the directory of an earlier session
PriorDir == [port \in Ports |-> FileOf(0)]

DirectoryExists == RErr("Cassette directory already exists")

InitCollision ==
    /\ mode = "collision"
    /\ RecordReplayIdle
    /\ wall = 1
    /\ \E d \in {None, PriorDir} : cassetteDirs = [t \in Seconds |-> IF t = 1 THEN d ELSE None]
    /\ procs = [p \in Processes |-> [pc |-> "idle"]]
    /\ RestIdleExcept({"collision"})

collisionRest ==
    <<recorder, recLog, disk, ctx, status, log, loaded, sessionVars, replayFuture, liveVars,
      validateVars, feedbackVars,
      driftVars,
      reconcileVars,
      conversationVars,
      surveyVars,
      syncVars,
      splitVars,
      yamlVars,
      callersVars>>

\* the wall clock reaches the next second
Tick ==
    /\ mode = "collision"
    /\ wall + 1 \in Seconds
    /\ wall' = wall + 1
    /\ UNCHANGED <<mode, cassetteDirs, procs, collisionRest>>

\* RecordingSession::new up to its early return: the directory named for the
\* current second is looked up
NewExistsCheck(p) ==
    /\ mode = "collision"
    /\ procs[p].pc = "idle"
    /\ procs' = [procs EXCEPT ![p] =
                    IF cassetteDirs[wall] # None
                    THEN [pc |-> "failed", ts |-> wall, res |-> DirectoryExists]
                    ELSE [pc |-> "checked", ts |-> wall]]
    /\ UNCHANGED <<mode, wall, cassetteDirs, collisionRest>>

\* std::fs::create_dir_all, which succeeds on a directory that exists, and
\* the rest of RecordingSession::new
NewCreateDirAll(p) ==
    /\ mode = "collision"
    /\ procs[p].pc = "checked"
    /\ cassetteDirs' = [cassetteDirs EXCEPT ![procs[p].ts] = IF @ = None THEN EmptyDir ELSE @]
    /\ procs' = [procs EXCEPT ![p] = [pc |-> "recording", ts |-> procs[p].ts, next |-> 1]]
    /\ UNCHANGED <<mode, wall, collisionRest>>

\* RecordingSession::finish, one finish_one at a time: the port's cassette
\* is written into the session's directory
FinishOneFile(p) ==
    /\ mode = "collision"
    /\ procs[p].pc = "recording"
    /\ LET port == FinishOrder[procs[p].next] IN
       cassetteDirs' = [cassetteDirs EXCEPT ![procs[p].ts][port] = FileOf(p)]
    /\ procs' = [procs EXCEPT ![p] =
                    IF procs[p].next = Len(FinishOrder)
                    THEN [pc |-> "finished", ts |-> procs[p].ts]
                    ELSE [@ EXCEPT !.next = @ + 1]]
    /\ UNCHANGED <<mode, wall, collisionRest>>

NextCollision ==
    \/ Tick
    \/ \E p \in Processes : NewExistsCheck(p)
    \/ \E p \in Processes : NewCreateDirAll(p)
    \/ \E p \in Processes : FinishOneFile(p)

SpecCollision == InitCollision /\ [][NextCollision]_vars

\* the sessions that wrote a file of directory d
WritersOf(d) == {d[port].writer : port \in {q \in Ports : d[q] # None}}

\* C23: constructing a recording session whose timestamped directory exists
\* fails with an error and leaves the directory as it was, so that no
\* directory ever holds the files of two sessions.
C23_SessionDirectoryCollision ==
    /\ \A p \in Processes :
          procs[p].pc = "failed" => procs[p].res = DirectoryExists
    /\ \A t \in Seconds :
          cassetteDirs[t] # None => Cardinality(WritersOf(cassetteDirs[t])) <= 1

(***************************************************************************)
(* The live context: ServiceContext::live and calls on its ports.          *)
(***************************************************************************)
\* ServiceContext::live: the adapter installed for each port
ServiceContextLive ==
    [p \in Ports |-> IF p \in {"clock", "fs", "git", "shell"} THEN "live" ELSE "panicking"]

InitLive ==
    /\ mode = "live"
    /\ RecordReplayIdle
    /\ RestIdleExcept({"live"})
    /\ LiveIdle

liveRest ==
    <<recorder, recLog, disk, ctx, status, log, loaded, sessionVars, replayFuture, collisionVars,
      validateVars, feedbackVars,
      driftVars,
      reconcileVars,
      conversationVars,
      surveyVars,
      syncVars,
      splitVars,
      yamlVars,
      callersVars>>

\* dispatch without SPECK_REC: the context is built
Live ==
    /\ mode = "live"
    /\ liveCtx = None
    /\ liveCtx' = ServiceContextLive
    /\ UNCHANGED <<mode, liveLog, liveRest>>

\* a call on a port of the live context: a live adapter returns what the
\* outside world gives, a stub panics and ends the process
LivePortCall(op, arg) ==
    /\ mode = "live"
    /\ liveCtx # None
    /\ Len(liveLog) < MaxCalls
    /\ liveLog # <<>> => liveLog[Len(liveLog)].res.kind # "panic"
    /\ \E res \in IF liveCtx[op.port] = "live" THEN Results(op)
                  ELSE {NotConfiguredPanic(op.port)} :
          liveLog' = Append(liveLog, CallRecord(op, arg, res))
    /\ UNCHANGED <<mode, liveCtx, liveRest>>

NextLive ==
    \/ Live
    \/ \E op \in Ops, arg \in FirstArgs : LivePortCall(op, arg)

SpecLive == InitLive /\ [][NextLive]_vars

\* C24: the live context has the real backend on each of the seven ports:
\* no port of it is a panicking stub, and no call on it ends in the panic of
\* a port that is not configured.
C24_LiveInstallsEveryPort ==
    /\ liveCtx # None => \A p \in Ports : liveCtx[p] = "live"
    /\ \A i \in DOMAIN liveLog : liveLog[i].res.kind # "panic"

(***************************************************************************)
(* Validation: validate_spec runs the checks of a task spec, the           *)
(* executable ones through ctx.shell.                                      *)
(***************************************************************************)
MaxChecks == 2

\* text the code looks into is a sequence of characters
IsWhitespace(ch) == ch \in {" ", "\n"}

\* str::trim
trim(s) ==
    LET keep == {i \in DOMAIN s : ~IsWhitespace(s[i])} IN
    IF keep = {} THEN <<>>
    ELSE SubSeq(s, CHOOSE i \in keep : \A j \in keep : i <= j,
                   CHOOSE i \in keep : \A j \in keep : i >= j)

\* str::contains
contains(s, e) == \E i \in 0..(Len(s) - Len(e)) : SubSeq(s, i + 1, i + Len(e)) = e

\* VerificationCheck
TestSuite(command, expected) == [kind |-> "TestSuite", command |-> command, expected |-> expected]
CommandOutput(command, expected) ==
    [kind |-> "CommandOutput", command |-> command, expected |-> expected]
SqlAssertion(query, expected) == [kind |-> "SqlAssertion", query |-> query, expected |-> expected]
MigrationRollback(description) == [kind |-> "MigrationRollback", description |-> description]
Custom(description) == [kind |-> "Custom", description |-> description]

\* VerificationStrategy
DirectAssertion(checks) == [strategy |-> "DirectAssertion", checks |-> checks]
RefactorToExpose(decision_point) ==
    [strategy |-> "RefactorToExpose", decision_point |-> decision_point]
TraceAssertion(trace_point) == [strategy |-> "TraceAssertion", trace_point |-> trace_point]

\* the expected texts of CommandOutput checks and the texts a command prints
ExpectedTexts == {<<"a">>, <<"a", "\n">>}
Stdouts == {<<"a", "\n">>, <<"b", "a">>, <<"b">>}
ExitCodes == {0, 1}

Checks ==
    {TestSuite("cargo test", "all pass"), SqlAssertion("SELECT 1", "1"),
     MigrationRollback("rollback"), Custom("look at it")}
    \cup {CommandOutput("echo", e) : e \in ExpectedTexts}

TaskSpecs ==
    {DirectAssertion(cs) : cs \in UNION {[1..n -> Checks] : n \in 0..MaxChecks}}
    \cup {RefactorToExpose("decide"), TraceAssertion("trace")}

\* what ctx.shell.run may return
ShellRunResults ==
    {ROk(ShellOutput(c, out, "errout")) : c \in ExitCodes, out \in Stdouts} \cup {RErr("boom")}

CheckResult(name, passed, message) == [name |-> name, passed |-> passed, message |-> message]

\* the checks run_check runs through ctx.shell
RunsShell(check) == check.kind \in {"TestSuite", "CommandOutput"}

\* [mutant] a Custom check counts as passed
run_check_custom_passes(check, res) ==
    CASE check.kind = "TestSuite" ->
            CheckResult("test_suite: " \o check.command,
                        res.kind = "Ok" /\ res.val.exit_code = 0, "test suite")
      [] check.kind = "CommandOutput" ->
            CheckResult("command_output: " \o check.command,
                        /\ res.kind = "Ok"
                        /\ res.val.exit_code = 0
                        /\ contains(trim(res.val.stdout), check.expected), "command output")
      [] check.kind = "SqlAssertion" ->
            CheckResult("sql_assertion: " \o check.query, FALSE,
                        "SQL assertion checks not yet supported")
      [] check.kind = "MigrationRollback" ->
            CheckResult("migration_rollback", FALSE, "Migration rollback checks not yet supported")
      [] check.kind = "Custom" ->
            CheckResult("custom", TRUE, "Custom checks require manual verification")

\* run_check; res is what ctx.shell.run(command) returned, None for a check
\* that runs no command
run_check(check, res) ==
    CASE check.kind = "TestSuite" ->
            IF res.kind = "Ok"
            THEN CheckResult("test_suite: " \o check.command, res.val.exit_code = 0,
                             IF res.val.exit_code = 0 THEN "passed" ELSE "exit code")
            ELSE CheckResult("test_suite: " \o check.command, FALSE,
                             "failed to execute: " \o res.msg)
      [] check.kind = "CommandOutput" ->
            IF res.kind = "Ok"
            THEN LET stdout == trim(res.val.stdout)
                     matches == contains(stdout, check.expected)
                 IN CheckResult("command_output: " \o check.command,
                                res.val.exit_code = 0 /\ matches,
                                IF matches THEN "output matches expected"
                                ELSE "expected output containing")
            ELSE CheckResult("command_output: " \o check.command, FALSE,
                             "failed to execute: " \o res.msg)
      [] check.kind = "SqlAssertion" ->
            CheckResult("sql_assertion: " \o check.query, FALSE,
                        "SQL assertion checks not yet supported")
      [] check.kind = "MigrationRollback" ->
            CheckResult("migration_rollback", FALSE, "Migration rollback checks not yet supported")
      [] check.kind = "Custom" ->
            CheckResult("custom", FALSE, "Custom checks require manual verification")

\* the CheckResult validate_spec makes for a strategy it does not run
StrategyResult(verification) ==
    IF verification.strategy = "RefactorToExpose"
    THEN CheckResult("refactor_to_expose", FALSE, "RefactorToExpose strategy not yet supported")
    ELSE CheckResult("trace_assertion", FALSE, "TraceAssertion strategy not yet supported")

\* ValidationResult::passed
ValidationResult_passed(checks) == \A i \in DOMAIN checks : checks[i].passed

ValidationResult(spec_id, checks) == [spec_id |-> spec_id, checks |-> checks]

\* the category of a check's result
CheckCategoryOf(kind) ==
    IF kind \in {"TestSuite", "CommandOutput"} THEN "Executable" ELSE "ManualReview"

WithCategory(result, category) ==
    [name |-> result.name, passed |-> result.passed, message |-> result.message,
     category |-> category]

InitValidate ==
    /\ mode = "validate"
    /\ RecordReplayIdle
    /\ RestIdleExcept({"validate"})
    /\ taskSpec \in TaskSpecs
    /\ checkResults = <<>>
    /\ shellLog = <<>>
    /\ validation = None

validateRest ==
    <<recorder, recLog, disk, ctx, status, log, loaded, sessionVars, replayFuture, collisionVars,
      liveVars, feedbackVars,
      driftVars,
      reconcileVars,
      conversationVars,
      surveyVars,
      syncVars,
      splitVars,
      yamlVars,
      callersVars>>

\* validate_spec, DirectAssertion: run_check of the next check; a TestSuite
\* or CommandOutput check runs its command through ctx.shell
RunCheck ==
    /\ mode = "validate"
    /\ validation = None
    /\ taskSpec.strategy = "DirectAssertion"
    /\ Len(checkResults) < Len(taskSpec.checks)
    /\ LET n == Len(checkResults) + 1
           check == taskSpec.checks[n]
       IN IF RunsShell(check)
          THEN \E res \in ShellRunResults :
                  /\ shellLog' = Append(shellLog, [check |-> n, command |-> check.command,
                                                   res |-> res])
                  /\ checkResults' = Append(checkResults,
                                            WithCategory(run_check(check, res),
                                                         CheckCategoryOf(check.kind)))
          ELSE /\ shellLog' = shellLog
               /\ checkResults' = Append(checkResults,
                                         WithCategory(run_check(check, None),
                                                      CheckCategoryOf(check.kind)))
    /\ UNCHANGED <<mode, taskSpec, validation, validateRest>>

\* validate_spec, RefactorToExpose and TraceAssertion: one failed result
StrategyNotSupported ==
    /\ mode = "validate"
    /\ validation = None
    /\ taskSpec.strategy # "DirectAssertion"
    /\ checkResults = <<>>
    /\ checkResults' = <<WithCategory(StrategyResult(taskSpec),
                                      CheckCategoryOf(taskSpec.strategy))>>
    /\ UNCHANGED <<mode, taskSpec, shellLog, validation, validateRest>>

\* validate_spec returns the ValidationResult
ValidateSpecReturns ==
    /\ mode = "validate"
    /\ validation = None
    /\ IF taskSpec.strategy = "DirectAssertion"
       THEN Len(checkResults) = Len(taskSpec.checks)
       ELSE checkResults # <<>>
    /\ validation' = ValidationResult("TASK-1", checkResults)
    /\ UNCHANGED <<mode, taskSpec, checkResults, shellLog, validateRest>>

NextValidate ==
    \/ RunCheck
    \/ StrategyNotSupported
    \/ ValidateSpecReturns

SpecValidate == InitValidate /\ [][NextValidate]_vars

\* what ctx.shell.run returned for check n, None when the check ran no command
ShellResultOf(n) ==
    IF \E k \in DOMAIN shellLog : shellLog[k].check = n
    THEN shellLog[CHOOSE k \in DOMAIN shellLog : shellLog[k].check = n].res
    ELSE None

\* C25: a TestSuite check passes iff shell.run(command) succeeds with exit
\* code 0; a CommandOutput check passes iff it succeeds with exit code 0 and
\* stdout contains the expected text; a check whose shell call fails is
\* failed; the spec passes iff all its checks pass.
C25_ExecutableChecks ==
    /\ \A n \in DOMAIN checkResults :
          taskSpec.strategy = "DirectAssertion" =>
            LET check == taskSpec.checks[n]
                res == ShellResultOf(n)
            IN /\ check.kind = "TestSuite" =>
                    (checkResults[n].passed <=> (res.kind = "Ok" /\ res.val.exit_code = 0))
               /\ check.kind = "CommandOutput" =>
                    (checkResults[n].passed <=>
                        (/\ res.kind = "Ok"
                         /\ res.val.exit_code = 0
                         /\ contains(res.val.stdout, check.expected)))
               /\ (RunsShell(check) /\ res.kind = "Err") => ~checkResults[n].passed
    /\ validation # None =>
          (ValidationResult_passed(validation.checks) <=>
              \A n \in DOMAIN checkResults : checkResults[n].passed)

\* the kinds of check and the strategies that need human judgment
ManualKinds ==
    {"SqlAssertion", "MigrationRollback", "Custom", "RefactorToExpose", "TraceAssertion"}

\* what check n of the task spec is: the kind of a DirectAssertion check,
\* else the strategy
KindOf(n) ==
    IF taskSpec.strategy = "DirectAssertion" THEN taskSpec.checks[n].kind ELSE taskSpec.strategy

CheckCategories == {"Executable", "Drift", "ManualReview"}
CheckNames == {"cargo test", "echo hello"}

\* a CheckResult as classify_failures reads it
CategorisedResult(name, passed, category) ==
    [name |-> name, passed |-> passed, category |-> category,
     detail |-> category \o " detail", expected |-> category \o " expected",
     actual |-> IF passed THEN "as expected" ELSE "not as expected"]

CategorisedResults ==
    {CategorisedResult(n, p, c) : n \in CheckNames, p \in BOOLEAN, c \in CheckCategories}

ValidationResults ==
    {ValidationResult("TASK-1", cs) : cs \in UNION {[1..n -> CategorisedResults] : n \in 0..MaxChecks}}

\* ValidationResult::failed_checks: the checks that did not pass, in order
failed_checks(result) == SelectSeq(result.checks, LAMBDA c : ~c.passed)

ImplementationFailure(fix_hint) == [type |-> "ImplementationFailure", fix_hint |-> fix_hint]
SpecFlaw(revision_hint) == [type |-> "SpecFlaw", revision_hint |-> revision_hint]

\* the closure classify_failures maps over the failed checks
ClassifiedFailure(check) ==
    [check_name |-> check.name,
     failure_type |->
        CASE check.category = "Executable" ->
                ImplementationFailure("Check '" \o check.name \o "' failed. Fix the implementation")
          [] check.category = "Drift" ->
                SpecFlaw("Codebase drift detected for '" \o check.name \o "'. Run speck plan")
          [] check.category = "ManualReview" ->
                SpecFlaw("Check '" \o check.name \o "' requires manual review"),
     detail |-> check.detail, expected |-> check.expected, actual |-> check.actual]

\* [mutant] every check is classified, passed or not
classify_failures_of_all_checks(result) ==
    [spec_id |-> result.spec_id,
     failures |-> [i \in DOMAIN result.checks |-> ClassifiedFailure(result.checks[i])]]

classify_failures(result) ==
    LET failed == failed_checks(result) IN
    [spec_id |-> result.spec_id,
     failures |-> [i \in DOMAIN failed |-> ClassifiedFailure(failed[i])]]

InitFeedback ==
    /\ mode = "feedback"
    /\ RecordReplayIdle
    /\ RestIdleExcept({"validate", "feedback"})
    /\ taskSpec = None
    /\ checkResults = <<>>
    /\ shellLog = <<>>
    /\ validation \in ValidationResults
    /\ feedback = None

feedbackRest ==
    <<recorder, recLog, disk, ctx, status, log, loaded, sessionVars, replayFuture, collisionVars,
      liveVars, validateVars,
      driftVars,
      reconcileVars,
      conversationVars,
      surveyVars,
      syncVars,
      splitVars,
      yamlVars,
      callersVars>>

ClassifyFailures ==
    /\ mode = "feedback"
    /\ feedback = None
    /\ feedback' = classify_failures(validation)
    /\ UNCHANGED <<mode, feedbackRest>>

NextFeedback == ClassifyFailures

SpecFeedback == InitFeedback /\ [][NextFeedback]_vars

\* the positions of the failed checks of a result, and the place of the
\* failed check at position i among them
FailedAt(result) == {i \in DOMAIN result.checks : ~result.checks[i].passed}
FailedRank(result, i) == Cardinality({j \in FailedAt(result) : j <= i})

\* C27: every failed check of a validation result is classified exactly
\* once, as ImplementationFailure when its category is executable and as
\* SpecFlaw when it is drift or manual review; a passed check is never
\* classified.
C27_FailureClassification ==
    feedback # None =>
        /\ Len(feedback.failures) = Cardinality(FailedAt(validation))
        /\ \A i \in FailedAt(validation) :
              LET f == feedback.failures[FailedRank(validation, i)]
                  check == validation.checks[i]
              IN /\ f.check_name = check.name
                 /\ f.detail = check.detail
                 /\ f.failure_type.type =
                        IF check.category = "Executable" THEN "ImplementationFailure"
                        ELSE "SpecFlaw"

C27_Witness ==
    /\ feedback # None
    /\ Len(validation.checks) = 2
    /\ validation.checks[1].passed
    /\ ~validation.checks[2].passed
    /\ validation.checks[2].category = "Drift"
    /\ Len(feedback.failures) = 1
    /\ feedback.failures[1].failure_type.type = "SpecFlaw"

(***************************************************************************)
(* Drift detection: detect_drift of task specs between two codebase maps.  *)
(* Module references, paths and item names are sequences of characters.    *)
(***************************************************************************)
MaxRefs == 2

\* char::to_lowercase over the characters of the model, and str::to_lowercase
LowerChar(ch) == CASE ch = "A" -> "a" [] ch = "B" -> "b" [] OTHER -> ch
to_lowercase(s) == [i \in DOMAIN s |-> LowerChar(s[i])]

ModuleSummary(path, public_items, dependencies) ==
    [path |-> path, public_items |-> public_items, dependencies |-> dependencies]

CodebaseMap(commit_hash, modules) == [commit_hash |-> commit_hash, modules |-> modules]

\* Iterator::find over a Vec: the first element that passes the test
Find(items, Test(_)) ==
    LET hits == {i \in DOMAIN items : Test(items[i])} IN
    IF hits = {} THEN None
    ELSE Some(items[CHOOSE i \in hits : \A j \in hits : i <= j])

\* Iterator::any over a Vec
AnyOf(items, Test(_)) == \E i \in DOMAIN items : Test(items[i])

\* find_matching_module: an exact match among the public items, then the
\* reference inside a path, then the reference inside a public item
find_matching_module(module_ref, modules) ==
    LET needle == to_lowercase(module_ref)
        exact == Find(modules, LAMBDA m :
                        AnyOf(m.public_items, LAMBDA item : to_lowercase(item) = needle))
        inPath == Find(modules, LAMBDA m : contains(to_lowercase(m.path), needle))
        inItem == Find(modules, LAMBDA m :
                        AnyOf(m.public_items, LAMBDA item : contains(to_lowercase(item), needle)))
    IN IF exact # None THEN Some(exact.some.path)
       ELSE IF inPath # None THEN Some(inPath.some.path)
       ELSE IF inItem # None THEN Some(inItem.some.path)
       ELSE None

ResolvedLink(module_ref, resolved_path) ==
    [module_ref |-> module_ref, resolved_path |-> resolved_path]

\* resolve: one link per module reference of the spec's context
resolve(spec, codebase_map) ==
    LET modules == IF spec.context = None THEN <<>> ELSE spec.context.some.modules IN
    [spec_id |-> spec.id,
     links |-> [i \in DOMAIN modules |->
                  ResolvedLink(modules[i],
                               find_matching_module(modules[i], codebase_map.modules))]]

\* the module of a map at a path
ModuleAt(map, path) == Find(map.modules, LAMBDA m : m.path = path)

\* the paths of the resolved links, in the order of the links
ResolvedPaths(linkage) ==
    LET resolved == SelectSeq(linkage.links, LAMBDA l : l.resolved_path # None) IN
    [i \in DOMAIN resolved |-> resolved[i].resolved_path.some]

IsRemoved(path, old_map, new_map) ==
    ModuleAt(old_map, path) # None /\ ModuleAt(new_map, path) = None

IsChanged(path, old_map, new_map) ==
    /\ ModuleAt(old_map, path) # None
    /\ ModuleAt(new_map, path) # None
    /\ \/ ModuleAt(old_map, path).some.public_items # ModuleAt(new_map, path).some.public_items
       \/ ModuleAt(old_map, path).some.dependencies # ModuleAt(new_map, path).some.dependencies

\* [mutant] only the public items are compared
IsChangedItemsOnly(path, old_map, new_map) ==
    /\ ModuleAt(old_map, path) # None
    /\ ModuleAt(new_map, path) # None
    /\ ModuleAt(old_map, path).some.public_items # ModuleAt(new_map, path).some.public_items

DriftEntry(spec_id, changed_modules, removed_modules, replan_recommended) ==
    [spec_id |-> spec_id, changed_modules |-> changed_modules,
     removed_modules |-> removed_modules, replan_recommended |-> replan_recommended]

\* [mutant] a change of the dependencies alone is not drift
check_spec_drift_items_only(linkage, old_map, new_map) ==
    LET paths == ResolvedPaths(linkage)
        changed_modules == SelectSeq(paths, LAMBDA p : IsChangedItemsOnly(p, old_map, new_map))
        removed_modules == SelectSeq(paths, LAMBDA p : IsRemoved(p, old_map, new_map))
    IN IF changed_modules = <<>> /\ removed_modules = <<>> THEN None
       ELSE Some(DriftEntry(linkage.spec_id, changed_modules, removed_modules,
                            removed_modules # <<>> \/ Len(changed_modules) > 1))

\* check_spec_drift: None for a spec without drift
check_spec_drift(linkage, old_map, new_map) ==
    LET paths == ResolvedPaths(linkage)
        changed_modules == SelectSeq(paths, LAMBDA p : IsChanged(p, old_map, new_map))
        removed_modules == SelectSeq(paths, LAMBDA p : IsRemoved(p, old_map, new_map))
    IN IF changed_modules = <<>> /\ removed_modules = <<>> THEN None
       ELSE Some(DriftEntry(linkage.spec_id, changed_modules, removed_modules,
                            removed_modules # <<>> \/ Len(changed_modules) > 1))

\* detect_drift: the entries of the specs that have drift, in spec order
detect_drift(specs, old_map, new_map) ==
    LET found == [i \in DOMAIN specs |->
                    check_spec_drift(resolve(specs[i], old_map), old_map, new_map)]
        kept == SelectSeq(found, LAMBDA e : e # None)
    IN [entries |-> [i \in DOMAIN kept |-> kept[i].some],
        old_commit |-> old_map.commit_hash, new_commit |-> new_map.commit_hash]

\* the two modules of the maps, as the old map has them
ModulePaths == {<<"s", "a">>, <<"s", "b">>}
OldModule(path) ==
    IF path = <<"s", "a">> THEN ModuleSummary(path, <<<<"A">>>>, <<>>)
    ELSE ModuleSummary(path, <<<<"B">>>>, <<>>)

\* what the new map may hold at a path: nothing, the old module, the module
\* with one more public item, or with one more dependency
NewVersions(path) ==
    {None, Some(OldModule(path)),
     Some(ModuleSummary(path, Append(OldModule(path).public_items, <<"N">>), <<>>)),
     Some(ModuleSummary(path, OldModule(path).public_items, <<"dep">>))}

OldMaps ==
    {CodebaseMap("aaa", ms) :
        ms \in {<<OldModule(<<"s", "a">>), OldModule(<<"s", "b">>)>>,
                <<OldModule(<<"s", "b">>), OldModule(<<"s", "a">>)>>,
                <<OldModule(<<"s", "a">>)>>}}

NewMaps ==
    {CodebaseMap("bbb", (IF va = None THEN <<>> ELSE <<va.some>>) \o
                        (IF vb = None THEN <<>> ELSE <<vb.some>>)) :
        va \in NewVersions(<<"s", "a">>), vb \in NewVersions(<<"s", "b">>)}

\* module references: the name of an item, a part of both paths, and a name
\* no module matches
ModuleRefs == {<<"A">>, <<"s">>, <<"z">>}

TaskContexts ==
    {None} \cup {Some([modules |-> rs]) : rs \in UNION {[1..n -> ModuleRefs] : n \in 0..MaxRefs}}

SpecIds == <<"T-1", "T-2">>

DriftSpecLists ==
    UNION {{[i \in 1..n |-> [id |-> SpecIds[i], context |-> cs[i]]] : cs \in [1..n -> TaskContexts]} :
            n \in 1..Len(SpecIds)}

InitDrift ==
    /\ mode = "drift"
    /\ RecordReplayIdle
    /\ RestIdleExcept({"drift"})
    /\ driftSpecs \in DriftSpecLists
    /\ oldMap \in OldMaps
    /\ newMap \in NewMaps
    /\ driftReport = None

driftRest ==
    <<recorder, recLog, disk, ctx, status, log, loaded, sessionVars, replayFuture, collisionVars,
      liveVars, validateVars, feedbackVars,
      reconcileVars,
      conversationVars,
      surveyVars,
      syncVars,
      splitVars,
      yamlVars,
      callersVars>>

DetectDrift ==
    /\ mode = "drift"
    /\ driftReport = None
    /\ driftReport' = detect_drift(driftSpecs, oldMap, newMap)
    /\ UNCHANGED <<mode, driftSpecs, oldMap, newMap, driftRest>>

NextDrift == DetectDrift

SpecDrift == InitDrift /\ [][NextDrift]_vars

\* the paths spec k references: those its module references resolve to
ReferencedPaths(k) ==
    LET paths == ResolvedPaths(resolve(driftSpecs[k], oldMap)) IN
    {paths[i] : i \in DOMAIN paths}

\* the entries of the report for spec k
EntriesOf(k) ==
    {i \in DOMAIN driftReport.entries : driftReport.entries[i].spec_id = driftSpecs[k].id}

\* the members of a Vec
Members(items) == {items[i] : i \in DOMAIN items}

\* a module of the old map whose public items or dependencies differ in the
\* new map, and one that the new map lacks
Differs(path) ==
    /\ ModuleAt(newMap, path) # None
    /\ \/ ModuleAt(oldMap, path).some.public_items # ModuleAt(newMap, path).some.public_items
       \/ ModuleAt(oldMap, path).some.dependencies # ModuleAt(newMap, path).some.dependencies
Absent(path) == ModuleAt(newMap, path) = None

\* C28: a module whose public items or dependencies differ between the two
\* maps is flagged as changed for every spec that references it, and a
\* module absent from the new map is flagged as removed for every spec that
\* references it.
C28_DriftDetection ==
    driftReport # None =>
        \A k \in DOMAIN driftSpecs : \A path \in ReferencedPaths(k) :
            /\ Differs(path) =>
                  /\ EntriesOf(k) # {}
                  /\ \A i \in EntriesOf(k) :
                        path \in Members(driftReport.entries[i].changed_modules)
            /\ Absent(path) =>
                  /\ EntriesOf(k) # {}
                  /\ \A i \in EntriesOf(k) :
                        path \in Members(driftReport.entries[i].removed_modules)

C28_Witness ==
    /\ driftReport # None
    /\ Len(driftSpecs) = 2
    /\ <<"s", "a">> \in ReferencedPaths(1) \cap ReferencedPaths(2)
    /\ Differs(<<"s", "a">>)
    /\ ModuleAt(oldMap, <<"s", "a">>).some.public_items =
          ModuleAt(newMap, <<"s", "a">>).some.public_items
    /\ Len(driftReport.entries) = 2
    /\ driftReport.entries[1].changed_modules = <<<<"s", "a">>>>

\* C29: re-planning is recommended for a spec exactly when more than one of
\* the modules it references changed or at least one of them was removed.
C29_ReplanRecommended ==
    driftReport # None =>
        \A k \in DOMAIN driftSpecs :
            LET changed == {path \in ReferencedPaths(k) : Differs(path)}
                removed == {path \in ReferencedPaths(k) : Absent(path)}
            IN \A i \in EntriesOf(k) :
                  driftReport.entries[i].replan_recommended <=>
                      (Cardinality(changed) > 1 \/ removed # {})

(***************************************************************************)
(* Reconciliation: detect_circular_dependencies over the dependencies of   *)
(* task specs, a depth-first search from every spec id not yet visited.    *)
(***************************************************************************)
MaxDeps == 2

TaskIds == <<"T1", "T2", "T3">>

\* the sequences that hold every member of S once
Orderings(S) ==
    {p \in [1..Cardinality(S) -> S] : \A i, j \in 1..Cardinality(S) : p[i] = p[j] => i = j}

\* the ids of the specs, as the HashSet spec_ids holds them
SpecIdSet(specs) == {specs[i].id : i \in DOMAIN specs}

\* the adjacency map: the dependencies of each spec that are ids of specs
DependencyGraph(specs) ==
    [id \in SpecIdSet(specs) |->
        LET spec == specs[CHOOSE i \in DOMAIN specs : specs[i].id = id]
            deps == IF spec.context = None THEN <<>> ELSE spec.context.some.dependencies
        IN SelectSeq(deps, LAMBDA d : d \in SpecIdSet(specs))]

\* Iterator::position
position(stack, node) == CHOOSE i \in DOMAIN stack : stack[i] = node /\ \A j \in 1..(i - 1) : stack[j] # node

DfsState(visited, on_stack, stack, cycles) ==
    [visited |-> visited, on_stack |-> on_stack, stack |-> stack, cycles |-> cycles]

RECURSIVE dfs_find_cycles(_, _, _), dfs_deps(_, _, _, _), dfs_deps_any_visited(_, _, _, _)

\* [mutant] a visited dependency counts as a cycle whether or not it is on
\* the stack
dfs_deps_any_visited(deps, i, graph, st) ==
    IF i > Len(deps) THEN st
    ELSE LET dep == deps[i]
             from == IF dep \in st.on_stack THEN position(st.stack, dep) ELSE 1
             next == IF dep \notin st.visited THEN dfs_find_cycles(dep, graph, st)
                     ELSE [st EXCEPT !.cycles = Append(@, SubSeq(st.stack, from, Len(st.stack)))]
         IN dfs_deps_any_visited(deps, i + 1, graph, next)

\* the loop of dfs_find_cycles over the dependencies of the node on top of
\* the stack, from the i-th on
dfs_deps(deps, i, graph, st) ==
    IF i > Len(deps) THEN st
    ELSE LET dep == deps[i]
             next == IF dep \notin st.visited THEN dfs_find_cycles(dep, graph, st)
                     ELSE IF dep \in st.on_stack
                          THEN [st EXCEPT !.cycles =
                                   Append(@, SubSeq(st.stack, position(st.stack, dep),
                                                    Len(st.stack)))]
                          ELSE st
         IN dfs_deps(deps, i + 1, graph, next)

dfs_find_cycles(node, graph, st) ==
    LET entered == DfsState(st.visited \cup {node}, st.on_stack \cup {node},
                            Append(st.stack, node), st.cycles)
        done == dfs_deps(graph[node], 1, graph, entered)
    IN [done EXCEPT !.stack = SubSeq(@, 1, Len(@) - 1), !.on_stack = @ \ {node}]

RECURSIVE VisitFrom(_, _, _, _)
\* the loop of detect_circular_dependencies over spec_ids, iterated in order
VisitFrom(order, i, graph, st) ==
    IF i > Len(order) THEN st
    ELSE VisitFrom(order, i + 1, graph,
                   IF order[i] \notin st.visited THEN dfs_find_cycles(order[i], graph, st)
                   ELSE st)

detect_circular_dependencies(specs, order) ==
    VisitFrom(order, 1, DependencyGraph(specs), DfsState({}, {}, <<>>, <<>>)).cycles

\* lists of up to MaxDeps dependencies, none of them named twice
DependencyLists ==
    UNION {{deps \in [1..n -> Members(TaskIds)] : \A i, j \in 1..n : deps[i] = deps[j] => i = j} :
            n \in 0..MaxDeps}

ReconcileContexts == {None} \cup {Some([dependencies |-> deps]) : deps \in DependencyLists}

\* two or three task specs with ids of their own
ReconcileSpecLists ==
    UNION {{[i \in 1..n |-> [id |-> TaskIds[i], context |-> cs[i]]] : cs \in [1..n -> ReconcileContexts]} :
            n \in 2..Len(TaskIds)}

InitReconcile ==
    /\ mode = "reconcile"
    /\ RecordReplayIdle
    /\ RestIdleExcept({"reconcile"})
    /\ reconcileSpecs \in ReconcileSpecLists
    /\ visitOrder \in Orderings(SpecIdSet(reconcileSpecs))
    /\ circular = None

reconcileRest ==
    <<recorder, recLog, disk, ctx, status, log, loaded, sessionVars, replayFuture, collisionVars,
      liveVars, validateVars, feedbackVars, driftVars,
      conversationVars,
      surveyVars,
      syncVars,
      splitVars,
      yamlVars,
      callersVars>>

\* reconcile, up to the LLM call: the circular dependencies are detected
DetectCircularDependencies ==
    /\ mode = "reconcile"
    /\ circular = None
    /\ circular' = Some(detect_circular_dependencies(reconcileSpecs, visitOrder))
    /\ UNCHANGED <<mode, reconcileSpecs, visitOrder, reconcileRest>>

NextReconcile == DetectCircularDependencies

SpecReconcile == InitReconcile /\ [][NextReconcile]_vars

\* spec a depends on spec b
DependsOn(a, b) ==
    LET deps == DependencyGraph(reconcileSpecs)[a] IN \E i \in DOMAIN deps : deps[i] = b

\* the cycles of the dependency graph: every spec of the sequence depends
\* on the next, and the last on the first
GraphCycles ==
    {p \in UNION {Orderings(S) : S \in SUBSET SpecIdSet(reconcileSpecs) \ {{}}} :
        /\ \A i \in 1..(Len(p) - 1) : DependsOn(p[i], p[i + 1])
        /\ DependsOn(p[Len(p)], p[1])}

\* C30: for every cycle of the dependency graph, one of the reported cycles
\* contains all the specs of that cycle, in whatever order the spec ids are
\* visited.
C30_CycleDetection ==
    circular # None =>
        \A p \in GraphCycles :
            \E i \in DOMAIN circular.some : Members(p) \subseteq Members(circular.some[i])

\* a dependency of a spec that names no spec of the set
ExternalDependency ==
    \E i \in DOMAIN reconcileSpecs :
        /\ reconcileSpecs[i].context # None
        /\ \E j \in DOMAIN reconcileSpecs[i].context.some.dependencies :
               reconcileSpecs[i].context.some.dependencies[j] \notin SpecIdSet(reconcileSpecs)

\* C31: when the dependencies among the given specs form no cycle
\* (dependencies on ids outside the set being ignored), no cycle is reported.
C31_AcyclicReportsNothing ==
    (circular # None /\ GraphCycles = {}) => circular.some = <<>>

\* an acyclic graph with a dependency between two specs of the set and a
\* dependency on an id outside the set has been searched
C31_Witness ==
    /\ circular # None
    /\ GraphCycles = {}
    /\ ExternalDependency
    /\ \E a, b \in SpecIdSet(reconcileSpecs) : a # b /\ DependsOn(a, b)

(***************************************************************************)
(* The interactive pushback loop: ConversationLoop::run analyses the specs *)
(* through the LLM, presents the questions, reads one line of input and    *)
(* applies it through the LLM, until no question remains or the user       *)
(* stops.  Text is a sequence of characters.                               *)
(***************************************************************************)
MaxLines == 2
MaxLlmCalls == 4

Alphabet ==
    <<"a", "b", "c", "d", "e", "f", "g", "h", "i", "j", "k", "l", "m",
      "n", "o", "p", "q", "r", "s", "t", "u", "v", "w", "x", "y", "z">>

is_ascii_lowercase(ch) == \E i \in DOMAIN Alphabet : Alphabet[i] = ch

\* ch - b'a' + 1
OptionNumber(ch) == CHOOSE i \in DOMAIN Alphabet : Alphabet[i] = ch

starts_with(s, p) == Len(s) >= Len(p) /\ SubSeq(s, 1, Len(p)) = p

strip_prefix(s, p) == IF starts_with(s, p) THEN Some(SubSeq(s, Len(p) + 1, Len(s))) ELSE None

RECURSIVE trim_start_matches(_, _)
trim_start_matches(s, p) ==
    IF starts_with(s, p) THEN trim_start_matches(SubSeq(s, Len(p) + 1, Len(s)), p) ELSE s

\* UserAction
PickOption(idx) == [action |-> "PickOption", idx |-> idx]
Feedback(text) == [action |-> "Feedback", text |-> text]
AddTask(title) == [action |-> "AddTask", title |-> title]
Accept == [action |-> "Accept"]
Stop == [action |-> "Stop"]

AcceptWords == {<<"a", "c", "c", "e", "p", "t">>, <<"d", "o", "n", "e">>, <<"y", "e", "s">>}
StopWords == {<<"s", "t", "o", "p">>, <<"q", "u", "i", "t">>, <<"e", "x", "i", "t">>, <<"n", "o">>}
OptionPrefix == <<"o", "p", "t", "i", "o", "n", " ">>
AddTaskPrefix == <<"a", "d", "d", " ", "t", "a", "s", "k", ":">>

\* [mutant] the words that accept or stop are free-form feedback
parse_user_input_no_words(input) ==
    LET lower == to_lowercase(input)
        cleaned == trim(trim_start_matches(lower, OptionPrefix))
        lowerTitle == strip_prefix(lower, AddTaskPrefix)
        inputTitle == strip_prefix(input, AddTaskPrefix)
    IN IF Len(cleaned) = 1 /\ is_ascii_lowercase(cleaned[1])
       THEN PickOption(OptionNumber(cleaned[1]))
       ELSE IF lowerTitle # None /\ trim(lowerTitle.some) # <<>>
       THEN AddTask(trim(lowerTitle.some))
       ELSE IF inputTitle # None /\ trim(inputTitle.some) # <<>>
       THEN AddTask(trim(inputTitle.some))
       ELSE Feedback(input)

parse_user_input(input) ==
    LET lower == to_lowercase(input)
        cleaned == trim(trim_start_matches(lower, OptionPrefix))
        lowerTitle == strip_prefix(lower, AddTaskPrefix)
        inputTitle == strip_prefix(input, AddTaskPrefix)
    IN IF lower \in AcceptWords THEN Accept
       ELSE IF lower \in StopWords THEN Stop
       ELSE IF Len(cleaned) = 1 /\ is_ascii_lowercase(cleaned[1])
       THEN PickOption(OptionNumber(cleaned[1]))
       ELSE IF lowerTitle # None /\ trim(lowerTitle.some) # <<>>
       THEN AddTask(trim(lowerTitle.some))
       ELSE IF inputTitle # None /\ trim(inputTitle.some) # <<>>
       THEN AddTask(trim(inputTitle.some))
       ELSE Feedback(input)

\* BufRead::read_line: the next line with its newline, the empty text at
\* end-of-file
read_line(input) == IF input = <<>> THEN <<>> ELSE Head(input)

\* the lines a user may type
InputLines ==
    {<<"y", "e", "s", "\n">>, <<"n", "o", "\n">>, <<"A", "\n">>,
     <<"o", "p", "t", "i", "o", "n", " ", "b", "\n">>,
     <<"a", "d", "d", " ", "t", "a", "s", "k", ":", " ", "x", "\n">>,
     <<"a", "d", "d", " ", "t", "a", "s", "k", ":", "\n">>,
     <<"h", "m", "\n">>, <<"\n">>}

InputTexts == UNION {[1..n -> InputLines] : n \in 0..MaxLines}

PushbackQuestion(task_id, options) == [task_id |-> task_id, options |-> options]

\* what one analysis answers: the LLM call or the parse of its answer fails,
\* or a list of questions; the LLM answers MaxLlmCalls calls at most
AnalysisOutcomes(calls) ==
    {RErr("LLM analysis failed")} \cup
    (IF calls < MaxLlmCalls
     THEN {ROk(<<>>), ROk(<<PushbackQuestion("T1", 2)>>)} ELSE {})

\* what the LLM answers to an update: a failure, or the ids of the new tasks
UpdateOutcomes(calls) ==
    {RErr("LLM update failed")} \cup
    (IF calls < MaxLlmCalls THEN {ROk(<<>>), ROk(<<"N">>)} ELSE {})

\* apply_llm_updates and apply_new_task: the new tasks are pushed
apply_llm_updates(specs, new_tasks) == specs \o new_tasks

InitConversation ==
    /\ mode = "conversation"
    /\ RecordReplayIdle
    /\ RestIdleExcept({"conversation"})
    /\ convSpecs = <<"T1">>
    /\ convInput \in InputTexts
    /\ convPc = "analyze"
    /\ convTurn = None
    /\ convAction = None
    /\ convCalls = 0
    /\ convResult = None

conversationRest ==
    <<recorder, recLog, disk, ctx, status, log, loaded, sessionVars, replayFuture, collisionVars,
      liveVars, validateVars, feedbackVars, driftVars, reconcileVars,
      surveyVars,
      syncVars,
      splitVars,
      yamlVars,
      callersVars>>

\* run returns
Returns(result) ==
    /\ convPc' = "done"
    /\ convResult' = result

\* analyze_specs and present_turn, and the break when no question remains
AnalyzeSpecs ==
    /\ mode = "conversation"
    /\ convPc = "analyze"
    /\ convCalls' = convCalls + 1
    /\ \E answer \in AnalysisOutcomes(convCalls), written \in BOOLEAN :
        IF answer.kind = "Err"
        THEN /\ Returns(answer)
             /\ UNCHANGED convTurn
        ELSE /\ convTurn' = Some(answer.val)
             /\ IF ~written THEN Returns(RErr("write error"))
                ELSE IF answer.val = <<>> THEN Returns(ROk(convSpecs))
                ELSE /\ convPc' = "read"
                     /\ UNCHANGED convResult
    /\ UNCHANGED <<mode, convSpecs, convInput, convAction, conversationRest>>

\* read_user_input, and the break on accept and stop
ReadUserInput ==
    /\ mode = "conversation"
    /\ convPc = "read"
    /\ convInput' = IF convInput = <<>> THEN <<>> ELSE Tail(convInput)
    /\ \E readable \in BOOLEAN, written \in BOOLEAN :
        IF ~readable
        THEN /\ Returns(RErr("read error"))
             /\ UNCHANGED convAction
        ELSE LET action == parse_user_input(trim(read_line(convInput))) IN
             /\ convAction' = Some(action)
             /\ IF action \in {Accept, Stop}
                THEN Returns(IF written THEN ROk(convSpecs) ELSE RErr("write error"))
                ELSE /\ convPc' = "apply"
                     /\ UNCHANGED convResult
    /\ UNCHANGED <<mode, convSpecs, convTurn, convCalls, conversationRest>>

\* apply_option, apply_feedback and add_foundational_task: one LLM call, whose
\* answer updates the specs
ApplyAction ==
    /\ mode = "conversation"
    /\ convPc = "apply"
    /\ convCalls' = convCalls + 1
    /\ \E answer \in UpdateOutcomes(convCalls) :
        IF answer.kind = "Err"
        THEN /\ Returns(answer)
             /\ UNCHANGED convSpecs
        ELSE /\ convSpecs' = apply_llm_updates(convSpecs, answer.val)
             /\ convPc' = "analyze"
             /\ UNCHANGED convResult
    /\ UNCHANGED <<mode, convInput, convTurn, convAction, conversationRest>>

NextConversation == AnalyzeSpecs \/ ReadUserInput \/ ApplyAction

SpecConversation == InitConversation /\ [][NextConversation]_vars

\* the step is one in which run returns an error
RunFails == convResult' # None /\ convResult'.kind = "Err"

\* the step is one in which the analyzer returns an empty question list
AnalyzerResolved == convPc = "analyze" /\ convTurn' = Some(<<>>)

\* the step is one in which the user types a word that accepts or stops
UserStops ==
    /\ convPc = "read"
    /\ to_lowercase(trim(read_line(convInput))) \in AcceptWords \cup StopWords

\* C32: unless an LLM call or the terminal fails, the loop ends exactly in
\* the step in which the analyzer returns no question or the user accepts or
\* stops, and run then returns the current specs; every other input is
\* applied through exactly one further LLM call, after which the next
\* analysis starts.
C32_PushbackLoop ==
    [][~RunFails =>
        /\ (convPc' = "done") <=> (AnalyzerResolved \/ UserStops)
        /\ convPc' = "done" => convResult' = ROk(convSpecs)
        /\ (convPc = "read" /\ ~UserStops) => (convPc' = "apply" /\ convCalls' = convCalls)
        /\ convPc = "apply" => (convPc' = "analyze" /\ convCalls' = convCalls + 1)]_vars

\* an option was applied through the LLM, the next analysis asked again and
\* the user then stopped: run has returned the specs
C32_Witness ==
    /\ convResult = ROk(convSpecs)
    /\ convAction \in {Some(Accept), Some(Stop)}
    /\ convCalls = 3
    /\ Len(convSpecs) = 2

\* C40: when the reader is at end-of-file while questions remain, run
\* returns in that step and no further LLM call is made.
C40_EndOfFileTerminates ==
    [][(convPc = "read" /\ convInput = <<>>) =>
        (convPc' = "done" /\ convCalls' = convCalls)]_vars

(***************************************************************************)
(* The broad survey's codebase map: load_or_generate_map returns the map   *)
(* cached at .spec-cache/codebase_map.yaml when its commit hash is the     *)
(* current commit, and has generator::generate build and write a new one   *)
(* otherwise.  A path is the sequence of its components.                   *)
(***************************************************************************)
CACHE_PATH == <<".spec-cache", "codebase_map.yaml">>
MAP_OUTPUT_PATH == <<".spec-cache", "codebase_map.yaml">>

Commits == {"c1", "c2"}

\* the content of a file: the YAML of a map, or text that is no map
Yaml(map) == [yaml |-> map]
Garbage == [garbage |-> TRUE]
\* a file that exists and cannot be read
Unreadable == [unreadable |-> TRUE]

\* serde_yaml::from_str::<CodebaseMap>
from_str(content) == IF "yaml" \in DOMAIN content THEN ROk(content.yaml) ELSE RErr("not a map")

\* a map generated earlier, at commit h
CachedMap(h) == CodebaseMap(h, <<ModuleSummary(<<"old">>, <<>>, <<>>)>>)

SurveyCaches == {None, Unreadable, Garbage} \cup {Yaml(CachedMap(h)) : h \in Commits}

\* the file lists git may give; the directories in sorted order
FileLists ==
    {<<>>,
     << <<"README.md">>, <<"src", "lib.rs">>, <<"src", "a.rs">>, <<"src", "notes.md">> >>,
     << <<"lib.rs">>, <<"src", "sub", "mod.rs">>, <<"src", "sub", "x.rs">>, <<"src", "a.rs">> >>}
SortedDirs == << <<"src">>, <<"src", "sub">> >>

FileName(file) == file[Len(file)]
Parent(file) == SubSeq(file, 1, Len(file) - 1)
HasRsExtension(file) == FileName(file) \in {"lib.rs", "mod.rs", "a.rs", "x.rs"}

\* the public items extract_public_items finds in a file
PublicItemsOf(file) ==
    CASE FileName(file) = "lib.rs" -> {<<"A">>}
      [] FileName(file) = "a.rs" -> {<<"A">>, <<"B">>}
      [] OTHER -> {}
SortedItems == << <<"A">>, <<"B">> >>

SurveyCall(op, arg) == [op |-> op, arg |-> arg]

\* the directories holding a mod.rs or lib.rs, sorted
find_module_roots(files) ==
    SelectSeq(SortedDirs, LAMBDA d :
        \E i \in DOMAIN files :
            /\ FileName(files[i]) \in {"mod.rs", "lib.rs"}
            /\ Len(files[i]) > 1
            /\ Parent(files[i]) = d)

\* the Rust files directly in the module's directory, in list order
ModuleFiles(module_path, files) ==
    SelectSeq(files, LAMBDA f : Len(f) > 1 /\ Parent(f) = module_path /\ HasRsExtension(f))

\* build_module_summary: a file that cannot be read is skipped
build_module_summary(env, module_path, files) ==
    LET read == SelectSeq(ModuleFiles(module_path, files), LAMBDA f : f \notin env.unreadable)
        found == UNION {PublicItemsOf(read[i]) : i \in DOMAIN read}
    IN ModuleSummary(module_path, SelectSeq(SortedItems, LAMBDA it : it \in found), <<>>)

RECURSIVE ModuleReads(_, _, _)
\* the fs.read_to_string calls of the module summaries, from the i-th root on
ModuleReads(roots, files, i) ==
    IF i > Len(roots) THEN <<>>
    ELSE LET mf == ModuleFiles(roots[i], files)
         IN [j \in DOMAIN mf |-> SurveyCall("fs.read_to_string", mf[j])]
            \o ModuleReads(roots, files, i + 1)

MapOutcome(calls, cache, res) == [calls |-> calls, cache |-> cache, res |-> res]

\* generator::generate
generate(env, cache) ==
    LET commit == <<SurveyCall("git.current_commit", <<>>)>>
        listed == commit \o <<SurveyCall("clock.now", <<>>), SurveyCall("git.list_files", <<>>)>>
    IN IF env.commit.kind = "Err"
       THEN MapOutcome(commit, cache, RErr("failed to get current commit"))
       ELSE IF env.files.kind = "Err"
       THEN MapOutcome(listed, cache, RErr("failed to list files"))
       ELSE LET files == env.files.val
                roots == find_module_roots(files)
                modules == [i \in DOMAIN roots |-> build_module_summary(env, roots[i], files)]
                map == CodebaseMap(env.commit.val, modules)
                calls == listed \o ModuleReads(roots, files, 1)
                             \o <<SurveyCall("fs.write", MAP_OUTPUT_PATH)>>
            IN IF env.writable THEN MapOutcome(calls, Yaml(map), ROk(map))
               ELSE MapOutcome(calls, cache, RErr("failed to write map"))

\* [mutant] a cached map that parses is used whatever its commit
load_or_generate_map_any_commit(env, cache) ==
    LET commit == <<SurveyCall("git.current_commit", <<>>)>>
        exists == commit \o <<SurveyCall("fs.exists", CACHE_PATH)>>
        read == exists \o <<SurveyCall("fs.read_to_string", CACHE_PATH)>>
        Regenerate(before) ==
            LET gen == generate(env, cache) IN MapOutcome(before \o gen.calls, gen.cache, gen.res)
    IN IF env.commit.kind = "Err"
       THEN MapOutcome(commit, cache, RErr("failed to get current commit"))
       ELSE IF cache = None THEN Regenerate(exists)
       ELSE IF cache = Unreadable \/ from_str(cache).kind = "Err" THEN Regenerate(read)
       ELSE MapOutcome(read, cache, ROk(from_str(cache).val))

load_or_generate_map(env, cache) ==
    LET commit == <<SurveyCall("git.current_commit", <<>>)>>
        exists == commit \o <<SurveyCall("fs.exists", CACHE_PATH)>>
        read == exists \o <<SurveyCall("fs.read_to_string", CACHE_PATH)>>
        Regenerate(before) ==
            LET gen == generate(env, cache) IN MapOutcome(before \o gen.calls, gen.cache, gen.res)
    IN IF env.commit.kind = "Err"
       THEN MapOutcome(commit, cache, RErr("failed to get current commit"))
       ELSE IF cache = None THEN Regenerate(exists)
       ELSE IF cache = Unreadable \/ from_str(cache).kind = "Err" THEN Regenerate(read)
       ELSE IF from_str(cache).val.commit_hash = env.commit.val
       THEN MapOutcome(read, cache, ROk(from_str(cache).val))
       ELSE Regenerate(read)

SurveyEnvs ==
    [commit : {RErr("git failed")} \cup {ROk(h) : h \in Commits},
     files : {RErr("git failed")} \cup {ROk(fl) : fl \in FileLists},
     unreadable : {{}, {<<"src", "a.rs">>}},
     writable : BOOLEAN]

InitSurvey ==
    /\ mode = "survey"
    /\ RecordReplayIdle
    /\ RestIdleExcept({"survey"})
    /\ surveyEnv \in SurveyEnvs
    /\ surveyCache \in SurveyCaches
    /\ surveyLog = <<>>
    /\ surveyMap = None

surveyRest ==
    <<recorder, recLog, disk, ctx, status, log, loaded, sessionVars, replayFuture, collisionVars,
      liveVars, validateVars, feedbackVars, driftVars, reconcileVars, conversationVars,
      syncVars,
      splitVars,
      yamlVars,
      callersVars>>

\* broad_survey, up to the LLM call: the map is loaded or generated
LoadOrGenerateMap ==
    /\ mode = "survey"
    /\ surveyMap = None
    /\ LET out == load_or_generate_map(surveyEnv, surveyCache) IN
        /\ surveyLog' = out.calls
        /\ surveyCache' = out.cache
        /\ surveyMap' = Some(out.res)
    /\ UNCHANGED <<mode, surveyEnv, surveyRest>>

NextSurvey == LoadOrGenerateMap

SpecSurvey == InitSurvey /\ [][NextSurvey]_vars

\* the calls of the log made on the port method op
CallsOf(calls, op) == {i \in DOMAIN calls : calls[i].op = op}

\* C33: once the current commit is known, the cached map is returned without
\* git.list_files or fs.write exactly when the cache file exists, parses as a
\* map and carries the current commit; otherwise the map is generated:
\* git.list_files is called and, when it answers, the listed module files are
\* read with fs.read_to_string, the last call is fs.write to the map path,
\* and when that succeeds the file and the result are the map of the current
\* commit.
C33_MapCache ==
    [][(surveyMap = None /\ surveyEnv.commit.kind = "Ok") =>
        LET current == surveyEnv.commit.val
            valid == /\ surveyCache \notin {None, Unreadable}
                     /\ from_str(surveyCache).kind = "Ok"
                     /\ from_str(surveyCache).val.commit_hash = current
            reads == {surveyLog'[i].arg : i \in CallsOf(surveyLog', "fs.read_to_string")}
        IN IF valid
           THEN /\ surveyMap' = Some(ROk(surveyCache.yaml))
                /\ CallsOf(surveyLog', "git.list_files") = {}
                /\ CallsOf(surveyLog', "fs.write") = {}
                /\ surveyCache' = surveyCache
           ELSE /\ CallsOf(surveyLog', "git.list_files") # {}
                /\ surveyEnv.files.kind = "Ok" =>
                    /\ reads \subseteq Members(surveyEnv.files.val) \cup {CACHE_PATH}
                    /\ \A f \in Members(surveyEnv.files.val) :
                           (Len(f) > 1 /\ FileName(f) \in {"lib.rs", "mod.rs"}) => f \in reads
                    /\ surveyLog'[Len(surveyLog')] = SurveyCall("fs.write", CACHE_PATH)
                    /\ surveyEnv.writable =>
                        /\ surveyCache' # surveyCache
                        /\ from_str(surveyCache').val.commit_hash = current
                        /\ surveyMap' = Some(ROk(surveyCache'.yaml))]_vars

\* a cache file of another commit was read, and the map was generated from
\* the listed files and written
C33_Witness ==
    /\ surveyMap # None
    /\ surveyMap.some.kind = "Ok"
    /\ surveyMap.some.val # CachedMap(surveyMap.some.val.commit_hash)
    /\ surveyCache = Yaml(surveyMap.some.val)
    /\ \E i \in CallsOf(surveyLog, "fs.read_to_string") : surveyLog[i].arg = CACHE_PATH
    /\ \E i \in CallsOf(surveyLog, "fs.read_to_string") : surveyLog[i].arg = <<"src", "a.rs">>

(***************************************************************************)
(* speck sync: the task specs of the store are matched to the tracker's    *)
(* issues by the [SPEC-ID] prefix of the title; plan_sync decides per spec *)
(* to create, update or leave an issue, execute_sync carries it out.       *)
(***************************************************************************)
MaxRuns == 3

SyncSpec(id, title, body) == [id |-> id, title |-> title, body |-> body]

\* format!("[{}] {}", spec.id, spec.title)
issue_title(spec) == <<"[">> \o spec.id \o <<"]", " ">> \o spec.title

\* the acceptance criteria and dependencies of the spec, as text
issue_body(spec) == spec.body

\* [mutant] only an open issue matches
find_matching_issue_open_only(spec_id, issues) ==
    LET prefix == <<"[">> \o spec_id \o <<"]">>
    IN Find(issues, LAMBDA issue : starts_with(issue.title, prefix) /\ issue.status = "open")

find_matching_issue(spec_id, issues) ==
    LET prefix == <<"[">> \o spec_id \o <<"]">>
    IN Find(issues, LAMBDA issue : starts_with(issue.title, prefix))

\* SyncAction
Create(spec_id, title) == [action |-> "Create", spec_id |-> spec_id, title |-> title]
Update(spec_id, issue_id, title) ==
    [action |-> "Update", spec_id |-> spec_id, issue_id |-> issue_id, title |-> title]
Unchanged(spec_id, issue_id) == [action |-> "Unchanged", spec_id |-> spec_id, issue_id |-> issue_id]

plan_sync(specs, existing_issues) ==
    [i \in DOMAIN specs |->
        LET spec == specs[i]
            existing == find_matching_issue(spec.id, existing_issues)
        IN IF existing = None THEN Create(spec.id, issue_title(spec))
           ELSE IF existing.some.title = issue_title(spec) /\ existing.some.body = issue_body(spec)
           THEN Unchanged(spec.id, existing.some.id)
           ELSE Update(spec.id, existing.some.id, issue_title(spec))]

\* IssueTracker::create_issue and update_issue, when they succeed
create_issue(issues, title, body) == Append(issues, Issue(Len(issues) + 1, title, body, "open"))
update_issue(issues, id, title, body) ==
    [k \in DOMAIN issues |->
        IF issues[k].id = id THEN [issues[k] EXCEPT !.title = title, !.body = body]
        ELSE issues[k]]

RECURSIVE execute_sync(_, _, _, _, _)
\* execute_sync from the i-th action on; the tracker fails the failAt-th
\* action (none when failAt = 0)
execute_sync(issues, specs, actions, i, failAt) ==
    IF i > Len(actions) THEN [issues |-> issues, res |-> ROk("synced")]
    ELSE LET action == actions[i]
             spec == Find(specs, LAMBDA s : s.id = action.spec_id).some
         IN IF action.action = "Unchanged"
            THEN execute_sync(issues, specs, actions, i + 1, failAt)
            ELSE IF i = failAt
            THEN [issues |-> issues, res |-> RErr("Failed to sync issue")]
            ELSE execute_sync(
                    IF action.action = "Create"
                    THEN create_issue(issues, issue_title(spec), issue_body(spec))
                    ELSE update_issue(issues, action.issue_id, issue_title(spec), issue_body(spec)),
                    specs, actions, i + 1, failAt)

SpecT1 == <<"T", "1">>
SpecT10 == <<"T", "1", "0">>
SyncTitles == {<<"x">>, <<"y">>}

SyncSpecLists ==
    {<<SyncSpec(SpecT1, t1, "b1"), SyncSpec(SpecT10, t2, "b2")>> : t1 \in SyncTitles, t2 \in SyncTitles}

\* the tracker before the first run: empty, or with the issue of one spec
Trackers ==
    {<<>>,
     <<Issue(1, <<"[", "T", "1", "0", "]", " ", "x">>, "b2", "open")>>,
     <<Issue(1, <<"[", "T", "1", "]", " ", "y">>, "old", "closed")>>}

InitSync ==
    /\ mode = "sync"
    /\ RecordReplayIdle
    /\ RestIdleExcept({"sync"})
    /\ syncSpecs \in SyncSpecLists
    /\ tracker \in Trackers
    /\ syncRuns = 0
    /\ syncLast = None

syncRest ==
    <<recorder, recLog, disk, ctx, status, log, loaded, sessionVars, replayFuture, collisionVars,
      liveVars, validateVars, feedbackVars, driftVars, reconcileVars, conversationVars, surveyVars,
      splitVars,
      yamlVars,
      callersVars>>

\* run_with_store: the issues are listed, the sync is planned against them
\* and, unless it is a dry run, executed
Sync(listed, dry_run, failAt) ==
    /\ mode = "sync"
    /\ syncRuns < MaxRuns
    /\ syncRuns' = syncRuns + 1
    /\ IF ~listed
       THEN /\ syncLast' = Some([actions |-> <<>>, res |-> RErr("Failed to list existing issues")])
            /\ UNCHANGED tracker
       ELSE LET actions == plan_sync(syncSpecs, tracker) IN
            IF dry_run
            THEN /\ syncLast' = Some([actions |-> actions, res |-> ROk("dry run")])
                 /\ UNCHANGED tracker
            ELSE LET done == execute_sync(tracker, syncSpecs, actions, 1, failAt) IN
                 /\ syncLast' = Some([actions |-> actions, res |-> done.res])
                 /\ tracker' = done.issues
    /\ UNCHANGED <<mode, syncSpecs, syncRest>>

\* the user gives a spec of the store another title
EditSpec(i, title) ==
    /\ mode = "sync"
    /\ syncSpecs[i].title # title
    /\ syncSpecs' = [syncSpecs EXCEPT ![i].title = title]
    /\ UNCHANGED <<mode, tracker, syncRuns, syncLast, syncRest>>

\* an issue is closed in the tracker
CloseIssue(k) ==
    /\ mode = "sync"
    /\ tracker[k].status = "open"
    /\ tracker' = [tracker EXCEPT ![k].status = "closed"]
    /\ UNCHANGED <<mode, syncSpecs, syncRuns, syncLast, syncRest>>

NextSync ==
    \/ \E listed \in BOOLEAN, dry_run \in BOOLEAN, failAt \in 0..Len(syncSpecs) :
           Sync(listed, dry_run, failAt)
    \/ \E i \in DOMAIN syncSpecs, title \in SyncTitles : EditSpec(i, title)
    \/ \E k \in DOMAIN tracker : CloseIssue(k)

SpecSync == InitSync /\ [][NextSync]_vars

\* the issues whose title starts with the prefix of the spec
IssuesOf(spec) ==
    {k \in DOMAIN tracker : starts_with(tracker[k].title, <<"[">> \o spec.id \o <<"]">>)}

\* C34: however often sync runs, and whatever runs failed part-way, no spec
\* has a second issue whose title starts with its [SPEC-ID] prefix.
C34_SyncIdempotent ==
    \A i \in DOMAIN syncSpecs : Cardinality(IssuesOf(syncSpecs[i])) <= 1

\* the last of several runs created the issue that was missing and did not
\* create one for the spec that had its issue, though an issue is closed
C34_Witness ==
    /\ syncRuns >= 2
    /\ syncLast # None
    /\ syncLast.some.res = ROk("synced")
    /\ \E i \in DOMAIN syncLast.some.actions : syncLast.some.actions[i].action = "Create"
    /\ \E i \in DOMAIN syncLast.some.actions : syncLast.some.actions[i].action # "Create"
    /\ \A i \in DOMAIN syncSpecs : Cardinality(IssuesOf(syncSpecs[i])) = 1
    /\ \E k \in DOMAIN tracker : tracker[k].status = "closed"

(***************************************************************************)
(* cassette_split: a monolithic cassette is split into one cassette per    *)
(* port, written to <output_dir>/<port>/<name>.yaml.                       *)
(***************************************************************************)
\* the ports of the monolithic cassettes, in the order of the BTreeMap
SplitPorts == <<"fs", "git", "llm">>

PerPortCassette(name, recorded_at, commit, source_session, interactions) ==
    [name |-> name, recorded_at |-> recorded_at, commit |-> commit,
     source_session |-> source_session, interactions |-> interactions]

\* [mutant] the interactions keep the seq they had
renumbered_keeps_seq(interactions) == interactions

\* the interactions with seq counting from 0
renumbered(interactions) ==
    [i \in DOMAIN interactions |->
        Interaction(i - 1, interactions[i].port, interactions[i].method,
                    interactions[i].input, interactions[i].output)]

\* by_port: the interactions of the port, in cassette order
by_port(cassette, port) == SelectSeq(cassette.interactions, LAMBDA x : x.port = port)

\* the file written for a port: its path under the output directory and
\* the cassette serialized into it
PerPortFile(cassette, port) ==
    [path |-> <<port, cassette.name \o ".yaml">>,
     yaml |-> PerPortCassette(cassette.name \o "-" \o port, cassette.recorded_at, cassette.commit,
                              cassette.name, renumbered(by_port(cassette, port)))]

RECURSIVE WritePorts(_, _, _, _)
\* the loop over by_port from the i-th port on; creating the directory or
\* writing the file of port failAt fails (none when failAt = 0)
WritePorts(cassette, out, i, failAt) ==
    IF i > Len(SplitPorts) THEN [out |-> out, res |-> ROk("split")]
    ELSE LET port == SplitPorts[i] IN
         IF by_port(cassette, port) = <<>> THEN WritePorts(cassette, out, i + 1, failAt)
         ELSE IF i = failAt THEN [out |-> out, res |-> RErr("Failed to write")]
         ELSE WritePorts(cassette, [out EXCEPT ![port] = PerPortFile(cassette, port)],
                         i + 1, failAt)

split_cassette(input, out, failAt) ==
    IF input = None THEN [out |-> out, res |-> RErr("Failed to read")]
    ELSE IF "yaml" \notin DOMAIN input THEN [out |-> out, res |-> RErr("Failed to parse")]
    ELSE WritePorts(input.yaml, out, 1, failAt)

\* monolithic cassettes of up to MaxLen interactions; the seq of an
\* interaction is its place in the recording
SplitInteractions ==
    UNION {[1..n -> {[port |-> p, input |-> a] : p \in Members(SplitPorts), a \in {"a", "b"}}] :
            n \in 0..MaxLen}

Monolithic(items) ==
    Cassette("session", 1, "abc",
             [i \in DOMAIN items |-> Interaction(i - 1, items[i].port, "m", items[i].input, "o")])

InitSplit ==
    /\ mode = "split"
    /\ RecordReplayIdle
    /\ RestIdleExcept({"split"})
    /\ splitInput \in {None, Garbage} \cup {Yaml(Monolithic(items)) : items \in SplitInteractions}
    /\ splitOut = [p \in Members(SplitPorts) |-> None]
    /\ splitResult = None

splitRest ==
    <<recorder, recLog, disk, ctx, status, log, loaded, sessionVars, replayFuture, collisionVars,
      liveVars, validateVars, feedbackVars, driftVars, reconcileVars, conversationVars, surveyVars,
      syncVars,
      yamlVars,
      callersVars>>

SplitCassette(failAt) ==
    /\ mode = "split"
    /\ splitResult = None
    /\ LET done == split_cassette(splitInput, splitOut, failAt) IN
        /\ splitOut' = done.out
        /\ splitResult' = Some(done.res)
    /\ UNCHANGED <<mode, splitInput, splitRest>>

NextSplit == \E failAt \in 0..Len(SplitPorts) : SplitCassette(failAt)

SpecSplit == InitSplit /\ [][NextSplit]_vars

\* the places in the monolithic cassette of the interactions of the port
PlacesOf(port) ==
    {i \in DOMAIN splitInput.yaml.interactions : splitInput.yaml.interactions[i].port = port}

\* C35: when split_cassette succeeds, every port of the monolithic cassette
\* has its file, which holds that port's interactions and no other, in their
\* original order, with seq 0..k-1, and names the original cassette in
\* source_session; a port without interactions has no file.
C35_CassetteSplit ==
    (splitResult # None /\ splitResult.some.kind = "Ok") =>
        \A port \in Members(SplitPorts) :
            IF PlacesOf(port) = {} THEN splitOut[port] = None
            ELSE /\ splitOut[port] # None
                 /\ splitOut[port].path[1] = port
                 /\ splitOut[port].yaml.source_session = splitInput.yaml.name
                 /\ LET got == splitOut[port].yaml.interactions
                        all == splitInput.yaml.interactions
                    IN /\ Len(got) = Cardinality(PlacesOf(port))
                       /\ \A k \in DOMAIN got :
                            /\ got[k].seq = k - 1
                            /\ \E i \in PlacesOf(port) :
                                /\ Cardinality({j \in PlacesOf(port) : j < i}) = k - 1
                                /\ got[k].port = port
                                /\ got[k].method = all[i].method
                                /\ got[k].input = all[i].input
                                /\ got[k].output = all[i].output

\* a cassette in which the interactions of one port stand around one of
\* another port has been split, and a third port has no file
C35_Witness ==
    /\ splitResult = Some(ROk("split"))
    /\ splitOut["git"] = None
    /\ splitOut["fs"] # None
    /\ splitOut["llm"] # None
    /\ Len(splitOut["llm"].yaml.interactions) = 2
    /\ splitInput.yaml.interactions[2].port = "fs"
    /\ splitOut["llm"].yaml.interactions[1].input # splitOut["llm"].yaml.interactions[2].input

(***************************************************************************)
(* The YAML form of a cassette.  A document is a tree of mappings,         *)
(* sequences and scalars; a scalar is its text, plain or quoted.  A plain  *)
(* scalar read as a serde_json::Value resolves to null, a boolean or a     *)
(* number when its text is that of one, and to a string otherwise, so the  *)
(* serializer quotes every string whose text would resolve otherwise.      *)
(***************************************************************************)
YPlain(text) == [y |-> "plain", text |-> text]
YQuoted(text) == [y |-> "quoted", text |-> text]
YSeq(items) == [y |-> "seq", items |-> items]
YMap(members) == [y |-> "map", members |-> members]

\* the numbers of the model, and the integer a text denotes
YamlNumbers == {-1, 0, 1, 2, 3, 4, 5, 123}
IsNumberText(text) == \E n \in YamlNumbers : ToString(n) = text
NumberOf(text) == CHOOSE n \in YamlNumbers : ToString(n) = text

\* the value a plain scalar resolves to
Resolve(text) ==
    CASE text \in {"null", "~", ""} -> JNull
      [] text = "true" -> JBool(TRUE)
      [] text = "false" -> JBool(FALSE)
      [] IsNumberText(text) -> JNum(NumberOf(text))
      [] OTHER -> JStr(text)

\* [mutant] every string is written plain
string_scalar_plain(s) == YPlain(s)

\* a string as a scalar: quoted when its plain form would not be read as
\* that string
string_scalar(s) == IF Resolve(s) = JStr(s) THEN YPlain(s) ELSE YQuoted(s)

RECURSIVE value_to_yaml(_)
\* Serialize for serde_json::Value
value_to_yaml(v) ==
    CASE v.t = "null" -> YPlain("null")
      [] v.t = "bool" -> YPlain(IF v.b THEN "true" ELSE "false")
      [] v.t = "num" -> YPlain(ToString(v.n))
      [] v.t = "str" -> string_scalar(v.s)
      [] v.t = "arr" -> YSeq([i \in DOMAIN v.a |-> value_to_yaml(v.a[i])])
      [] v.t = "obj" -> YMap([k \in DOMAIN v.o |-> value_to_yaml(v.o[k])])

RECURSIVE yaml_to_value(_)
\* Deserialize for serde_json::Value
yaml_to_value(doc) ==
    CASE doc.y = "plain" -> Resolve(doc.text)
      [] doc.y = "quoted" -> JStr(doc.text)
      [] doc.y = "seq" -> JArr([i \in DOMAIN doc.items |-> yaml_to_value(doc.items[i])])
      [] doc.y = "map" -> JObj([k \in DOMAIN doc.members |-> yaml_to_value(doc.members[k])])

\* a String field reads the text of any scalar; a u64 field a plain
\* number that is not negative; a DateTime<Utc> field an RFC 3339 text
yaml_to_string(doc) == IF doc.y \in {"plain", "quoted"} THEN Some(doc.text) ELSE None
yaml_to_u64(doc) ==
    IF doc.y = "plain" /\ IsNumberText(doc.text) /\ NumberOf(doc.text) >= 0
    THEN Some(NumberOf(doc.text)) ELSE None
yaml_to_datetime(doc) ==
    IF doc.y \in {"plain", "quoted"} THEN ParseInstant(doc.text) ELSE None

\* #[derive(Serialize)] of Interaction and Cassette
interaction_to_yaml(i) ==
    YMap([seq |-> YPlain(ToString(i.seq)), port |-> string_scalar(i.port),
          method |-> string_scalar(i.method), input |-> value_to_yaml(i.input),
          output |-> value_to_yaml(i.output)])
to_string(c) ==
    YMap([name |-> string_scalar(c.name), recorded_at |-> string_scalar(Rfc3339Z[c.recorded_at]),
          commit |-> string_scalar(c.commit),
          interactions |-> YSeq([k \in DOMAIN c.interactions |->
                                    interaction_to_yaml(c.interactions[k])])])

\* #[derive(Deserialize)] of Interaction and Cassette: None for a document
\* that does not have the shape
yaml_to_interaction(doc) ==
    IF /\ doc.y = "map"
       /\ DOMAIN doc.members = {"seq", "port", "method", "input", "output"}
       /\ yaml_to_u64(doc.members["seq"]) # None
       /\ yaml_to_string(doc.members["port"]) # None
       /\ yaml_to_string(doc.members["method"]) # None
    THEN Some(Interaction(yaml_to_u64(doc.members["seq"]).some,
                          yaml_to_string(doc.members["port"]).some,
                          yaml_to_string(doc.members["method"]).some,
                          yaml_to_value(doc.members["input"]),
                          yaml_to_value(doc.members["output"])))
    ELSE None
yaml_to_cassette(doc) ==
    IF /\ doc.y = "map"
       /\ DOMAIN doc.members = {"name", "recorded_at", "commit", "interactions"}
       /\ yaml_to_string(doc.members["name"]) # None
       /\ yaml_to_datetime(doc.members["recorded_at"]) # None
       /\ yaml_to_string(doc.members["commit"]) # None
       /\ doc.members["interactions"].y = "seq"
       /\ \A k \in DOMAIN doc.members["interactions"].items :
              yaml_to_interaction(doc.members["interactions"].items[k]) # None
    THEN ROk(Cassette(yaml_to_string(doc.members["name"]).some,
                      yaml_to_datetime(doc.members["recorded_at"]).some,
                      yaml_to_string(doc.members["commit"]).some,
                      [k \in DOMAIN doc.members["interactions"].items |->
                          yaml_to_interaction(doc.members["interactions"].items[k]).some]))
    ELSE RErr("deserialize")

\* the interactions of the cassettes: values whose text is that of another
\* kind of value among them
YamlValues ==
    {JNull, JNum(1), JStr("1"), JStr("true"),
     JArr(<<JStr(""), JBool(FALSE)>>), JObj([prompt |-> JStr("null"), n |-> JNum(-1)])}
YamlInteractions == UNION {[1..n -> YamlValues] : n \in 0..MaxLen}

\* a cassette of the given values; a name and a commit hash may be all digits
YamlCassettes ==
    {Cassette(name, at, commit,
              [k \in DOMAIN vals |-> Interaction(k - 1, "llm", "complete", vals[k], JArr(<<vals[k]>>))]) :
        name \in {"test-cassette", "123"}, at \in Instants, commit \in {"abc123", "123"},
        vals \in YamlInteractions}

InitYaml ==
    /\ mode = "yaml"
    /\ RecordReplayIdle
    /\ RestIdleExcept({"yaml"})
    /\ yamlCassette \in YamlCassettes
    /\ yamlText = None
    /\ yamlBack = None

yamlRest ==
    <<recorder, recLog, disk, ctx, status, log, loaded, sessionVars, replayFuture, collisionVars,
      liveVars, validateVars, feedbackVars, driftVars, reconcileVars, conversationVars, surveyVars,
      syncVars, splitVars,
      callersVars>>

\* serde_yaml::to_string(&cassette)
SerializeCassette ==
    /\ mode = "yaml"
    /\ yamlText = None
    /\ yamlText' = Some(to_string(yamlCassette))
    /\ UNCHANGED <<mode, yamlCassette, yamlBack, yamlRest>>

\* serde_yaml::from_str::<Cassette>(&yaml)
DeserializeCassette ==
    /\ mode = "yaml"
    /\ yamlText # None
    /\ yamlBack = None
    /\ yamlBack' = Some(yaml_to_cassette(yamlText.some))
    /\ UNCHANGED <<mode, yamlCassette, yamlText, yamlRest>>

NextYaml == SerializeCassette \/ DeserializeCassette

SpecYaml == InitYaml /\ [][NextYaml]_vars

\* C36: the cassette read back from the YAML of a cassette is that cassette:
\* its name, recorded_at, commit and the seq, port, method, input and output
\* of every interaction are the same.
C36_YamlRoundTrip ==
    yamlBack # None => yamlBack.some = ROk(yamlCassette)

\* a cassette whose name and commit are all digits, with an interaction
\* whose input is the string "true", has been written and read back
C36_Witness ==
    /\ yamlBack # None
    /\ yamlBack.some.kind = "Ok"
    /\ yamlBack.some.val.name = "123"
    /\ yamlBack.some.val.commit = "123"
    /\ \E k \in DOMAIN yamlBack.some.val.interactions :
           yamlBack.some.val.interactions[k].input = JStr("true")

(***************************************************************************)
(* The cursors of the replayers.                                           *)
(***************************************************************************)
\* the interactions the replayer of port p in context c has returned for
\* the key, by the log of the context's calls
ReturnedFor(calls, p, key) ==
    IF key.port = p
    THEN Cardinality({i \in DOMAIN calls : calls[i].op = key /\ calls[i].got # None})
    ELSE 0

\* the step is a call on port p of context c that was served from the key
ServedFrom(c, p, key) ==
    /\ key.port = p
    /\ Len(log'[c]) = Len(log[c]) + 1
    /\ log'[c][Len(log'[c])].op = key
    /\ log'[c][Len(log'[c])].got # None

\* C37: for every key of every replayer the cursor lies between 0 and the
\* length of the key's queue and is the number of interactions the replayer
\* has returned for the key; a step never lowers it, a call served from the
\* key raises it by exactly 1 and every other step leaves it as it is.
C37_CursorInvariant ==
    [][\A c \in Contexts : ctx'[c] # None =>
          \A p \in Ports : \A key \in DOMAIN ctx'[c][p].queues :
              LET after == ctx'[c][p].cursors[key] IN
              /\ 0 <= after
              /\ after <= Len(ctx'[c][p].queues[key])
              /\ after = ReturnedFor(log'[c], p, key)
              /\ ctx[c] # None =>
                    /\ after >= ctx[c][p].cursors[key]
                    /\ after = ctx[c][p].cursors[key] + (IF ServedFrom(c, p, key) THEN 1 ELSE 0)]_vars

\* a replayer has returned the two interactions of a key and has then
\* refused a third call on it
C37_Witness ==
    \E c \in Contexts :
        /\ ctx[c] # None
        /\ status[c] = "panicked"
        /\ \E p \in Ports : \E key \in DOMAIN ctx[c][p].queues :
              /\ ctx[c][p].cursors[key] = 2
              /\ Len(ctx[c][p].queues[key]) = 2
              /\ Len(log[c]) = 3
              /\ log[c][3].op = key

(***************************************************************************)
(* RecordingSession::finish and the files of the ports it has passed.      *)
(***************************************************************************)
\* C38: when RecordingSession::finish returns an error for a port, no
\* complete cassette file of the session has been written for any port.
C38_FinishAllOrNothing ==
    (outcome.finish # None /\ outcome.finish.kind = "Err")
        => \A p \in Ports : ~IsCassetteFile(dir[p])

(***************************************************************************)
(* Concurrent callers of record_result on one Arc<Mutex<CassetteRecorder>>.*)
(***************************************************************************)
MaxCallers == 2
MaxAppends == 3

Callers == 1..MaxCallers

\* the path the k-th call of caller c reads: it tells the appends apart
CallerPath(c, k) == ToString(c) \o "-" \o ToString(k)

CallerPathOp == Op("fs", "read_to_string")

\* what the wrapped adapter returned to a caller
CallerResults == {ROk(VString("text")), RErr("io")}

\* the output_json record_result builds before it takes the lock
output_json_of(result) ==
    IF result.kind = "Ok" THEN JObj([Ok |-> Ser(result.val)])
    ELSE JObj([Err |-> JStr(result.msg)])

RECURSIVE SumAppends(_, _)
SumAppends(f, S) ==
    IF S = {} THEN 0
    ELSE LET c == CHOOSE x \in S : TRUE IN f[c] + SumAppends(f, S \ {c})

\* appends begun so far, returned or not
AppendsBegun ==
    SumAppends(callerAppends, Callers) + Cardinality({c \in Callers : callerPc[c] # "idle"})

\* [mutant] the lock is handed out while another caller holds the guard
lock_unguarded(holder, c) == TRUE

\* Mutex::lock: the caller gets the guard once no caller holds it
lock(holder, c) == holder = None

InitCallers ==
    /\ mode = "callers"
    /\ RecordReplayIdle
    /\ RestIdleExcept({"callers"})
    /\ sharedRec = RecorderNew("fs.cassette.yaml", "fs", "abc")
    /\ mutexHolder = None
    /\ callerPc = [c \in Callers |-> "idle"]
    /\ callerLocal = [c \in Callers |-> None]
    /\ callerAppends = [c \in Callers |-> 0]
    /\ callersFile = None

callersRest ==
    <<recorder, recLog, disk, ctx, status, log, loaded, sessionVars, replayFuture, collisionVars,
      liveVars, validateVars, feedbackVars, driftVars, reconcileVars, conversationVars, surveyVars,
      syncVars, splitVars, yamlVars>>

\* record_result up to the lock: input and output are serialized
SerializeCall(c) ==
    /\ mode = "callers"
    /\ callersFile = None
    /\ callerPc[c] = "idle"
    /\ AppendsBegun < MaxAppends
    /\ \E result \in CallerResults :
          callerLocal' = [callerLocal EXCEPT ![c] =
              [input |-> InputJson(CallerPathOp, CallerPath(c, callerAppends[c])),
               output |-> output_json_of(result)]]
    /\ callerPc' = [callerPc EXCEPT ![c] = "serialized"]
    /\ UNCHANGED <<mode, sharedRec, mutexHolder, callerAppends, callersFile, callersRest>>

\* recorder.lock()
LockRecorder(c) ==
    /\ mode = "callers"
    /\ callerPc[c] = "serialized"
    /\ lock(mutexHolder, c)
    /\ mutexHolder' = Some(c)
    /\ callerPc' = [callerPc EXCEPT ![c] = "locked"]
    /\ UNCHANGED <<mode, sharedRec, callerLocal, callerAppends, callersFile, callersRest>>

\* record: the Interaction is built with seq: self.next_seq
RecordBuild(c) ==
    /\ mode = "callers"
    /\ callerPc[c] = "locked"
    /\ callerLocal' = [callerLocal EXCEPT ![c] =
          Interaction(sharedRec.next_seq, CallerPathOp.port, CallerPathOp.method,
                      callerLocal[c].input, callerLocal[c].output)]
    /\ callerPc' = [callerPc EXCEPT ![c] = "built"]
    /\ UNCHANGED <<mode, sharedRec, mutexHolder, callerAppends, callersFile, callersRest>>

\* record: self.next_seq += 1
RecordBump(c) ==
    /\ mode = "callers"
    /\ callerPc[c] = "built"
    /\ sharedRec' = [sharedRec EXCEPT !.next_seq = @ + 1]
    /\ callerPc' = [callerPc EXCEPT ![c] = "bumped"]
    /\ UNCHANGED <<mode, mutexHolder, callerLocal, callerAppends, callersFile, callersRest>>

\* record: self.interactions.push(interaction)
RecordPush(c) ==
    /\ mode = "callers"
    /\ callerPc[c] = "bumped"
    /\ sharedRec' = [sharedRec EXCEPT !.interactions = Append(@, callerLocal[c])]
    /\ callerPc' = [callerPc EXCEPT ![c] = "pushed"]
    /\ UNCHANGED <<mode, mutexHolder, callerLocal, callerAppends, callersFile, callersRest>>

\* the guard is dropped at the end of record_result and the call returns
UnlockRecorder(c) ==
    /\ mode = "callers"
    /\ callerPc[c] = "pushed"
    /\ mutexHolder' = None
    /\ callerLocal' = [callerLocal EXCEPT ![c] = None]
    /\ callerAppends' = [callerAppends EXCEPT ![c] = @ + 1]
    /\ callerPc' = [callerPc EXCEPT ![c] = "idle"]
    /\ UNCHANGED <<mode, sharedRec, callersFile, callersRest>>

\* CassetteRecorder::finish once every caller has returned and given up its
\* reference to the recorder
FinishShared ==
    /\ mode = "callers"
    /\ callersFile = None
    /\ \A c \in Callers : callerPc[c] = "idle"
    /\ callersFile' = Some(finish(sharedRec, 0))
    /\ UNCHANGED <<mode, sharedRec, mutexHolder, callerPc, callerLocal, callerAppends, callersRest>>

NextCallers ==
    \/ \E c \in Callers : SerializeCall(c)
    \/ \E c \in Callers : LockRecorder(c)
    \/ \E c \in Callers : RecordBuild(c)
    \/ \E c \in Callers : RecordBump(c)
    \/ \E c \in Callers : RecordPush(c)
    \/ \E c \in Callers : UnlockRecorder(c)
    \/ FinishShared

SpecCallers == InitCallers /\ [][NextCallers]_vars

\* the appends that have returned, by caller and number
ReturnedAppends == {<<c, k>> \in Callers \X (0..(MaxAppends - 1)) : k < callerAppends[c]}

\* the interactions of the recorder, or of the written cassette after finish
AppendedList ==
    IF callersFile # None THEN callersFile.some.interactions ELSE sharedRec.interactions

\* C39: under every interleaving of the callers' appends to one recorder,
\* the appended interactions have distinct seq values, every append that has
\* returned is in the list exactly once, and the written cassette holds one
\* interaction per append with seq 0..N-1 in list order.
C39_ConcurrentAppends ==
    mode = "callers" =>
        /\ \A i, j \in DOMAIN AppendedList :
              i # j => AppendedList[i].seq # AppendedList[j].seq
        /\ \A a \in ReturnedAppends :
              Cardinality({i \in DOMAIN AppendedList :
                  AppendedList[i].input = InputJson(CallerPathOp, CallerPath(a[1], a[2]))}) = 1
        /\ callersFile # None =>
              /\ Len(callersFile.some.interactions) = Cardinality(ReturnedAppends)
              /\ \A i \in DOMAIN callersFile.some.interactions :
                    callersFile.some.interactions[i].seq = i - 1

\* a cassette written after two callers' appends were interleaved: the
\* second caller serialized first and appended in between the first's appends
C39_Witness ==
    /\ mode = "callers"
    /\ callersFile # None
    /\ Len(callersFile.some.interactions) = MaxAppends
    /\ \E i, j, k \in DOMAIN callersFile.some.interactions :
          /\ i < j /\ j < k
          /\ callersFile.some.interactions[i].input = InputJson(CallerPathOp, CallerPath(1, 0))
          /\ callersFile.some.interactions[j].input = InputJson(CallerPathOp, CallerPath(2, 0))
          /\ callersFile.some.interactions[k].input = InputJson(CallerPathOp, CallerPath(1, 1))
====
